---------------------------- MODULE Spec2Model ----------------------------
(***************************************************************************)
(* A model of datashuttle's name-processing and numbering subsystem.       *)
(*                                                                         *)
(* Strings are sequences of one-character strings, so that splitting,     *)
(* zero-padding, parsing and printing of numbers are computed the way the  *)
(* Python code computes them.  The project storage (local and central) is  *)
(* a set of folder paths; a path is a sequence of folder names.            *)
(***************************************************************************)
EXTENDS Integers, Sequences, FiniteSets, TLC

VARIABLES
    local,      \* folder paths below the local project's top-level folder
    central,    \* folder paths below the central project's top-level folder
    call,       \* the last operation performed, with its arguments
    ret,        \* what that operation returned, raised and warned
    configs,    \* the project's configuration (self.cfg), where it is set
    logs,       \* the log files in the temporary and the projects' log folders
    tui         \* the screens of the terminal interface, their widgets and messages

vars == <<local, central, call, ret, configs, logs, tui>>

\* No screen of the terminal interface is open.
NoTui == [screens |-> <<>>]

-----------------------------------------------------------------------------
(* Bounds of the model *)

\* Subject / session numbers 1..MaxNum are used in the folder names offered.
MaxNum == 2

\* At most this many folders are made in the whole project (both sides).
MaxFolders == 2

\* The largest number in the names given to the formatter.
MaxRange == 3

\* The longest list of names given to the formatter in one call.
MaxNames == 2

\* The subjects sub-001..sub-<MaxSubs> and the sessions
\* ses-001..ses-<MaxSess> are in the projects that data is transferred
\* between.
MaxSubs == 2

MaxSess == 2

\* At most this many session directories are put into the two sides of a
\* project before data is transferred.
MaxSessionDirs == 2

\* The longest include list given to handle_rclone_arguments.
MaxIncludes == 2

\* At most this many changes are made to the keys and values of a config
\* before it is checked.
MaxKeyChanges == 2

\* The calls that set the configs, one after the other.
MaxCalls == 3

\* The calls of the number suggester that run at the same time.
MaxThreads == 2

\* The suggested folders that are made one after the other.
MaxSuggestedMade == 3

\* The clicks on the radio buttons and the checkbox of the configs screen.
MaxWidgetChanges == 3

\* The times 'Configure Project' is pressed.
MaxAttempts == 2

\* The right clicks on the inputs of the Create tab.
MaxClicks == 2

\* `default_num_value_digits: int = 3`
default_num_value_digits == 3

-----------------------------------------------------------------------------
(* Python built-ins on strings, lists and integers *)

\* None, where a string (a sequence of characters) or a number is expected
None == <<"None">>

Digits == <<"0", "1", "2", "3", "4", "5", "6", "7", "8", "9">>

IsDigit(c) == \E i \in 1..10 : Digits[i] = c

DigitVal(c) == (CHOOSE i \in 1..10 : Digits[i] = c) - 1

\* str(n) for n >= 0
RECURSIVE py_str(_)
py_str(n) ==
    IF n < 10 THEN <<Digits[n + 1]>>
    ELSE py_str(n \div 10) \o <<Digits[(n % 10) + 1]>>

\* int(s) for a string of decimal digits (leading zeros allowed)
RECURSIVE py_int(_)
py_int(s) ==
    IF Len(s) = 0 THEN 0
    ELSE 10 * py_int(SubSeq(s, 1, Len(s) - 1)) + DigitVal(s[Len(s)])

\* s.zfill(width): pad on the left with "0", never truncate
RECURSIVE zfill(_, _)
zfill(s, width) ==
    IF Len(s) >= width THEN s ELSE zfill(<<"0">> \o s, width)

\* s.startswith(p)
startswith(s, p) ==
    /\ Len(p) <= Len(s)
    /\ SubSeq(s, 1, Len(p)) = p

Range(f) == {f[i] : i \in DOMAIN f}

\* max(list) of a non-empty list of integers
py_max(list) == CHOOSE m \in Range(list) : \A x \in Range(list) : x <= m

\* sorted(list) of integers (duplicates kept)
RECURSIVE sorted(_)
sorted(list) ==
    IF Len(list) = 0 THEN <<>>
    ELSE LET i == CHOOSE j \in 1..Len(list) :
                      \A k \in 1..Len(list) : list[j] <= list[k]
             rest == [k \in 1..(Len(list) - 1) |->
                          IF k < i THEN list[k] ELSE list[k + 1]]
         IN <<list[i]>> \o sorted(rest)

\* list(set(...)): the elements of a set, once each, in any order
RECURSIVE ListsOfSet(_)
ListsOfSet(S) ==
    IF S = {} THEN {<<>>}
    ELSE UNION {{<<x>> \o l : l \in ListsOfSet(S \ {x})} : x \in S}

-----------------------------------------------------------------------------
(* Folder names *)

SUB == <<"s", "u", "b">>
SES == <<"s", "e", "s">>
DASH == <<"-">>
ID_A == <<"_", "i", "d", "-", "a">>
NOTES == <<"n", "o", "t", "e", "s">>

Prefixes == {SUB, SES}

\* The prefix-token value of a name: what follows "<prefix>-" up to the
\* next "_" or the end of the name.
RECURSIVE UpToUnderscore(_)
UpToUnderscore(s) ==
    IF Len(s) = 0 \/ s[1] = "_" THEN <<>>
    ELSE <<s[1]>> \o UpToUnderscore(Tail(s))

\* Values offered for folder names: every number 1..MaxNum written with
\* 1..default_num_value_digits digits, and the largest number of the default
\* width (999).
RECURSIVE Pow10(_)
Pow10(w) == IF w = 0 THEN 1 ELSE 10 * Pow10(w - 1)

TopNum == Pow10(default_num_value_digits) - 1

ValuePool ==
    {zfill(py_str(n), w) : n \in 1..MaxNum, w \in 1..default_num_value_digits}
        \cup {py_str(TopNum)}

\* Folder names offered at the level of `prefix`: plain names, a name with a
\* second key-value pair ("sub-001_id-a"), and two names that do not start
\* with the prefix.
NamePool(prefix) ==
    {prefix \o DASH \o v : v \in ValuePool}
        \cup {prefix \o DASH \o zfill(py_str(1), default_num_value_digits) \o ID_A}
        \cup {NOTES,
              (IF prefix = SUB THEN SES ELSE SUB) \o DASH
                  \o zfill(py_str(1), default_num_value_digits)}

-----------------------------------------------------------------------------
(* The project storage, as the folder search sees it *)

\* fnmatch of a name against a search string of the form "<literal>*"
fnmatch(name, search_str) ==
    startswith(name, SubSeq(search_str, 1, Len(search_str) - 1))

\* Mutant: the sessions of every subject are found.
FolderNamesAt_every_subject(side, sub) ==
    IF sub = None
    THEN {p[1] : p \in {q \in side : Len(q) = 1}}
    ELSE {p[2] : p \in {q \in side : Len(q) = 2}}

\* The names of the folders directly below the top-level folder (sub = None)
\* or directly below the subject folder `sub`, on one side of the project.
FolderNamesAt(side, sub) ==
    IF sub = None
    THEN {p[1] : p \in {q \in side : Len(q) = 1}}
    ELSE {p[2] : p \in {q \in side : Len(q) = 2 /\ q[1] = sub}}

\* folders.search_project_for_sub_or_ses_names(cfg, sub, search_str,
\* local_only=False).  The two lists are given as sets: the caller
\* concatenates them and takes set() of the result.
search_project_for_sub_or_ses_names(sub, search_str) ==
    [local   |-> {n \in FolderNamesAt(local, sub) : fnmatch(n, search_str)},
     central |-> {n \in FolderNamesAt(central, sub) : fnmatch(n, search_str)}]

-----------------------------------------------------------------------------
(* utils *)

\* utils.raise_error(message): `raise BaseException(message)`
raise_error(message) ==
    [exception |-> "BaseException", message |-> message]

\* utils.get_values_from_bids_formatted_name(all_names, prefix,
\* return_as_int=False): the prefix-token value of every name that starts with
\* "<prefix>-", in list order; other names are skipped.
RECURSIVE get_values_from_bids_formatted_name(_, _)
get_values_from_bids_formatted_name(all_names, prefix) ==
    IF Len(all_names) = 0 THEN <<>>
    ELSE LET name == Head(all_names)
             rest == get_values_from_bids_formatted_name(Tail(all_names), prefix)
         IN IF startswith(name, prefix \o DASH)
            THEN <<UpToUnderscore(SubSeq(name, Len(prefix) + 2, Len(name)))>> \o rest
            ELSE rest

\* utils.sub_or_ses_value_to_int(value)
sub_or_ses_value_to_int(value) == py_int(value)

\* utils.integers_are_consecutive(list_of_ints): every step of the (sorted)
\* list is +1
integers_are_consecutive(list_of_ints) ==
    \A i \in 1..(Len(list_of_ints) - 1) :
        list_of_ints[i + 1] - list_of_ints[i] = 1

-----------------------------------------------------------------------------
(* getters *)

NoException == [exception |-> "None", message |-> <<>>]

DigitsNotConsistent(prefix) ==
    <<"The number of value digits for the", prefix,
      "level are not consistent. Cannot suggest a", prefix, "number.">>

NumberSkipped(all_value_nums) ==
    [category |-> "UserWarning",
     message  |-> <<"A subject number has been skipped, currently used subject numbers are:",
                    all_value_nums>>]

\* Mutant: the empty branch uses the built-in default width, not the argument.
EmptyFolderList_fixed_width(default_digits) ==
    [raised |-> NoException, warnings |-> <<>>,
     max_existing_num |-> 0, num_value_digits |-> default_num_value_digits]

\* `if len(all_folders) == 0:` branch: no maximum, the default width.
EmptyFolderList(default_digits) ==
    [raised |-> NoException, warnings |-> <<>>,
     max_existing_num |-> 0, num_value_digits |-> default_digits]

\* Mutant: the widths of the values are taken as consistent.
DigitsAreConsistent_always(all_num_value_digits) == TRUE

\* `if not len(set(all_num_value_digits)) == 1:`
DigitsAreConsistent(all_num_value_digits) ==
    Cardinality(Range(all_num_value_digits)) = 1

\* Mutant: the check for skipped numbers is left out.
SkippedWarnings_never(all_value_nums) == <<>>

\* `if not utils.integers_are_consecutive(all_value_nums): warnings.warn(...)`
SkippedWarnings(all_value_nums) ==
    IF ~integers_are_consecutive(all_value_nums)
    THEN <<NumberSkipped(all_value_nums)>>
    ELSE <<>>

\* get_max_sub_or_ses_num_and_value_length(all_folders, prefix,
\* default_num_value_digits).  The result carries what was raised (if
\* anything), the warnings emitted, and the returned pair.
get_max_sub_or_ses_num_and_value_length(all_folders, prefix, default_digits) ==
    IF Len(all_folders) = 0
    THEN EmptyFolderList(default_digits)
    ELSE LET all_values_str ==
                 get_values_from_bids_formatted_name(all_folders, prefix)
             all_num_value_digits ==
                 [i \in 1..Len(all_values_str) |-> Len(all_values_str[i])]
         IN IF ~DigitsAreConsistent(all_num_value_digits)
            THEN [raised |-> raise_error(DigitsNotConsistent(prefix)),
                  warnings |-> <<>>,
                  max_existing_num |-> -1, num_value_digits |-> -1]
            ELSE LET num_value_digits == all_num_value_digits[1]
                     all_value_nums ==
                         sorted([i \in 1..Len(all_values_str) |->
                                     sub_or_ses_value_to_int(all_values_str[i])])
                 IN [raised |-> NoException,
                     warnings |-> SkippedWarnings(all_value_nums),
                     max_existing_num |-> py_max(all_value_nums),
                     num_value_digits |-> num_value_digits]

\* Mutant: the maximum itself is suggested.
suggested_new_num_no_increment(max_existing_num) == max_existing_num

\* `suggested_new_num = max_existing_num + 1`
suggested_new_num(max_existing_num) == max_existing_num + 1

\* Mutant: the number is cut to the established width.
format_suggested_new_num_truncating(new_num, num_value_digits) ==
    LET padded == zfill(py_str(new_num), num_value_digits)
    IN SubSeq(padded, Len(padded) - num_value_digits + 1, Len(padded))

\* `format_suggested_new_num = str(suggested_new_num).zfill(num_value_digits)`
format_suggested_new_num(new_num, num_value_digits) ==
    zfill(py_str(new_num), num_value_digits)

\* `prefix = "ses" if sub else "sub"`
prefix_for(sub) == IF sub # None THEN SES ELSE SUB

\* The body of get_next_sub_or_ses_number once `all_folders` is known.
next_number_from_folders(all_folders, sub, return_with_prefix, default_digits) ==
    LET prefix == prefix_for(sub)
        m == get_max_sub_or_ses_num_and_value_length(
                 all_folders, prefix, default_digits)
    IN IF m.raised # NoException
       THEN [raised |-> m.raised, warnings |-> m.warnings, value |-> None]
       ELSE LET formatted == format_suggested_new_num(
                                 suggested_new_num(m.max_existing_num),
                                 m.num_value_digits)
            IN [raised |-> NoException,
                warnings |-> m.warnings,
                value |-> IF return_with_prefix
                          THEN prefix \o DASH \o formatted
                          ELSE formatted]

\* Mutant: the central folder names are left out.
all_folder_names_local_only(folder_names) == folder_names.local

\* set(folder_names["local"] + folder_names["central"])
all_folder_names(folder_names) ==
    folder_names.local \cup folder_names.central

\* get_next_sub_or_ses_number(cfg, sub, search_str, return_with_prefix,
\* default_num_value_digits): every outcome the call can have in the current
\* project, one for each order list(set(...)) can give the folder names.
get_next_sub_or_ses_number(sub, search_str, return_with_prefix, default_digits) ==
    LET folder_names == search_project_for_sub_or_ses_names(sub, search_str)
    IN {next_number_from_folders(all_folders, sub, return_with_prefix,
                                 default_digits) :
            all_folders \in ListsOfSet(all_folder_names(folder_names))}

-----------------------------------------------------------------------------
(* More Python string operations *)

\* The element of a set of one element.  In only({F(v) : v \in {e}}), e is
\* computed once and F gets its value.  (A definition of LET and an argument
\* of an operator are computed again wherever they are used.)
only(S) == CHOOSE x \in S : TRUE

\* The list that a list comprehension makes.
py_list(f) == SubSeq(f, 1, Len(f))

\* s.split(sep) for a one-character separator
RECURSIVE split(_, _)
split(s, sep) ==
    LET seps == {j \in 1..Len(s) : s[j] = sep}
        SplitAt(i) ==
            <<SubSeq(s, 1, i - 1)>> \o split(SubSeq(s, i + 1, Len(s)), sep)
    IN IF seps = {} THEN <<s>>
       ELSE only({SplitAt(i) :
                     i \in {CHOOSE j \in seps : \A k \in seps : j <= k}})

\* s.strip()
RECURSIVE strip(_)
strip(s) ==
    IF Len(s) > 0 /\ s[1] = " " THEN strip(Tail(s))
    ELSE IF Len(s) > 0 /\ s[Len(s)] = " " THEN strip(SubSeq(s, 1, Len(s) - 1))
    ELSE s

\* s.find(pattern) + 1: the first position of pattern in s, 0 if there is none
find(s, pattern) ==
    LET hits == {i \in 1..(Len(s) - Len(pattern) + 1) :
                     SubSeq(s, i, i + Len(pattern) - 1) = pattern}
    IN IF hits = {} THEN 0 ELSE CHOOSE i \in hits : \A j \in hits : i <= j

\* s.replace(old, new)
RECURSIVE replace(_, _, _)
replace(s, old, new) ==
    LET ReplaceAt(i) ==
            IF i = 0 THEN s
            ELSE SubSeq(s, 1, i - 1) \o new
                     \o replace(SubSeq(s, i + Len(old), Len(s)), old, new)
    IN only({ReplaceAt(i) : i \in {find(s, old)}})

\* the concatenation of a list of lists
RECURSIVE concat(_)
concat(lists) ==
    IF Len(lists) = 0 THEN <<>> ELSE Head(lists) \o concat(Tail(lists))

\* list(dict.fromkeys(list)): duplicates removed, first occurrences kept
RECURSIVE remove_duplicates(_)
remove_duplicates(list) ==
    LET last == list[Len(list)]
        Append_last(front) ==
            IF last \in Range(front) THEN front ELSE front \o <<last>>
    IN IF Len(list) = 0 THEN <<>>
       ELSE only({Append_last(front) :
                     front \in {remove_duplicates(
                                    SubSeq(list, 1, Len(list) - 1))}})

-----------------------------------------------------------------------------
(* Token grammar (spec 4.1) *)

TO_TAG == <<"@", "T", "O", "@">>
DATE_TAG == <<"@", "D", "A", "T", "E", "@">>

\* The date the clock gives when names are formatted.
Today == <<"2", "0", "2", "3", "0", "1", "3", "1">>

LowerCase ==
    {"a", "b", "c", "d", "e", "f", "g", "h", "i", "j", "k", "l", "m", "n",
     "o", "p", "q", "r", "s", "t", "u", "v", "w", "x", "y", "z"}

\* Characters a key or a value may hold.
IsAlnum(c) == IsDigit(c) \/ c \in LowerCase \/ c = "T"

IsNumber(s) == Len(s) > 0 /\ \A i \in 1..Len(s) : IsDigit(s[i])

\* substitute_dynamic_tags(raw_name): the date tag is replaced by the date.
substitute_dynamic_tags(raw_name) == replace(raw_name, DATE_TAG, Today)

\* split_into_tokens(name): the (key, value) pairs of a name; a token that
\* is not "<key>-<value>" is given as it splits.
split_into_tokens(name) ==
    LET SplitTokens(tokens) ==
            py_list([i \in 1..Len(tokens) |-> split(tokens[i], "-")])
    IN only({SplitTokens(tokens) : tokens \in {split(name, "_")}})

-----------------------------------------------------------------------------
(* Name formatter (spec 4.2) and structural validation (spec 4.3, tier A) *)

NameFormattingError(name) ==
    [exception |-> "NameFormattingError", message |-> <<name>>]

NeuroBlueprintError(message) ==
    [exception |-> "NeuroBlueprintError", message |-> message]

\* The structural rules for one name: every token is "<key>-<value>" with
\* both parts made of letters and digits, no key appears twice, and a
\* name of one level does not carry the key of the other level.
validate_token_structure(name, is_ses) ==
    LET other_key == IF is_ses THEN SUB ELSE SES
        Check(tokens) ==
            LET parts == {tokens[i][j] : i \in 1..Len(tokens), j \in {1, 2}}
            IN IF \E i \in 1..Len(tokens) : Len(tokens[i]) < 2
                  THEN NameFormattingError(name)
               ELSE IF \E part \in parts :
                          \/ Len(part) = 0
                          \/ \E k \in 1..Len(part) : ~IsAlnum(part[k])
                  THEN NameFormattingError(name)
               ELSE IF \E i \in 1..Len(tokens) : Len(tokens[i]) > 2
                  THEN NeuroBlueprintError(
                           [text |-> "value contains the delimiter",
                            name |-> name, existing |-> <<>>])
               ELSE IF \E i, j \in 1..Len(tokens) :
                          i # j /\ tokens[i][1] = tokens[j][1]
                  THEN NeuroBlueprintError(
                           [text |-> "duplicate key", name |-> name,
                            existing |-> <<>>])
               ELSE IF \E i \in 1..Len(tokens) : tokens[i][1] = other_key
                  THEN NeuroBlueprintError(
                           [text |-> "key of the other level", name |-> name,
                            existing |-> <<>>])
               ELSE NoException
    IN only({Check(tokens) : tokens \in {split_into_tokens(name)}})

\* Mutant: the range a@TO@b stops before b.
range_last_exclusive(left, right) == py_int(right) - 1

range_last(left, right) == py_int(right)

\* Mutant: the made values have the width of the left endpoint.
range_width_of_left(left, right) == Len(left)

range_width(left, right) == IF Len(left) > Len(right) THEN Len(left) ELSE Len(right)

\* The names of "<prefix><left>@TO@<right><rest>", ascending.
expand_range(prefix, left, right, rest) ==
    LET first == py_int(left)
        last == range_last(left, right)
    IN [i \in 1..(last - first + 1) |->
            prefix \o zfill(py_str(first + i - 1), range_width(left, right))
                \o rest]

\* Step 3 for one name with its prefix: the range of the prefix value.
expand_name(name, prefix) ==
    LET body == SubSeq(name, Len(prefix) + 1, Len(name))
        Expand(value) ==
            LET rest == SubSeq(body, Len(value) + 1, Len(body))
                ExpandAt(at) ==
                    LET left == SubSeq(value, 1, at - 1)
                        right == SubSeq(value, at + Len(TO_TAG), Len(value))
                    IN IF at = 0
                          THEN [raised |-> NoException, names |-> <<name>>]
                       ELSE IF ~IsNumber(left) \/ ~IsNumber(right)
                          THEN [raised |-> NameFormattingError(name),
                                names |-> <<>>]
                       ELSE IF py_int(right) < py_int(left)
                          THEN [raised |-> NameFormattingError(name),
                                names |-> <<>>]
                       ELSE [raised |-> NoException,
                             names |-> py_list(expand_range(prefix, left,
                                                            right, rest))]
            IN only({ExpandAt(at) : at \in {find(value, TO_TAG)}})
    IN only({Expand(value) : value \in {UpToUnderscore(body)}})

\* Mutant: the prefix is prepended whether or not the name has it.
add_prefix_always(tagged, prefix) == prefix \o tagged

\* Step 2: a name that lacks the canonical prefix gets it prepended.
add_prefix(tagged, prefix) ==
    IF startswith(tagged, prefix) THEN tagged ELSE prefix \o tagged

\* Steps 2 to 4 for one raw name: tags, prefix, range, token structure.  The
\* first name that breaks a rule of the structure is the one raised for.
format_one_name(raw_name, prefix, is_ses) ==
    LET AddPrefix(tagged) == add_prefix(tagged, prefix)
        Validate(expanded) ==
            LET Structure(k) ==
                    validate_token_structure(expanded.names[k], is_ses)
                bad == {k \in 1..Len(expanded.names) :
                            Structure(k) # NoException}
            IN IF expanded.raised # NoException \/ bad = {} THEN expanded
               ELSE [raised |-> Structure(CHOOSE k \in bad :
                                              \A m \in bad : k <= m),
                     names |-> <<>>]
    IN only({Validate(expanded) :
                 expanded \in
                     {expand_name(name, prefix) :
                          name \in
                              {AddPrefix(tagged) :
                                   tagged \in
                                       {substitute_dynamic_tags(raw_name)}}}})

\* Mutant: duplicates are kept.
keep_duplicates(names) == names

deduplicate(names) == remove_duplicates(names)

\* utils.process_names(names, prefix, is_ses): the five steps of the
\* formatter; the first failure met, in input order, is the one raised.
process_names(names, prefix, is_ses) ==
    LET Split(all_names) ==
            py_list([i \in 1..Len(all_names) |-> split(all_names[i], ",")])
        Strip(pieces) ==
            py_list([i \in 1..Len(pieces) |-> strip(pieces[i])])
        Format(raw_names) ==
            py_list([i \in 1..Len(raw_names) |->
                         format_one_name(raw_names[i], prefix, is_ses)])
        Names(formatted) ==
            py_list([i \in 1..Len(formatted) |-> formatted[i].names])
        Result(formatted) ==
            LET failed == {i \in 1..Len(formatted) :
                               formatted[i].raised # NoException}
            IN IF failed # {}
               THEN [raised |-> formatted[CHOOSE i \in failed :
                                              \A j \in failed : i <= j].raised,
                     warnings |-> <<>>, value |-> None]
               ELSE [raised |-> NoException, warnings |-> <<>>,
                     value |-> only({deduplicate(expanded) :
                                         expanded \in
                                             {concat(lists) :
                                                  lists \in
                                                      {Names(formatted)}}})]
    IN only({Result(formatted) :
                 formatted \in
                     {Format(raw_names) :
                          raw_names \in
                              {Strip(pieces) :
                                   pieces \in
                                       {concat(lists) :
                                            lists \in {Split(names)}}}}})

-----------------------------------------------------------------------------
(* DataShuttle private methods (src/datashuttle/datashuttle.py) *)

\* self.cfg as make_config_file leaves it by default
cfg == [sub_prefix |-> SUB \o DASH, ses_prefix |-> SES \o DASH]

\* Mutant: the subject prefix is given for either level.
always_sub_prefix(sub_or_ses) == cfg.sub_prefix

_get_sub_or_ses_prefix(sub_or_ses) ==
    IF sub_or_ses = "sub" THEN cfg.sub_prefix ELSE cfg.ses_prefix

_process_names(names, sub_or_ses) ==
    LET prefix == _get_sub_or_ses_prefix(sub_or_ses)
        is_ses == IF sub_or_ses = "ses" THEN TRUE ELSE FALSE
        processed_names == process_names(names, prefix, is_ses)
    IN processed_names

-----------------------------------------------------------------------------
(* Validation of names against the project (spec 4.3, tier B) *)

\* The value of the first token of a name that starts with prefix.
prefix_value(name, prefix) ==
    UpToUnderscore(SubSeq(name, Len(prefix) + 1, Len(name)))

\* Mutant: two names are the same entity only when they are equal.
is_duplicate_entity_never(name, existing_name, prefix) == FALSE

\* Duplicate entity check: the values match, the names differ.
is_duplicate_entity(name, existing_name, prefix) ==
    /\ prefix_value(name, prefix) = prefix_value(existing_name, prefix)
    /\ name # existing_name

DuplicateEntity(name, existing_name) ==
    [text |-> "already exists with the same id. The existing folder is",
     name |-> name, existing |-> existing_name]

DigitWidthDiffers(name) ==
    [text |-> "the number of value digits differs from the existing names",
     name |-> name, existing |-> <<>>]

\* The violations of one name against the listed existing names: one for
\* every existing folder that is the same entity under another name, then
\* one if the digit width of the value differs from an existing width.
violations_of_name(name, existing_names, prefix) ==
    LET HasPrefix(n) == startswith(n, prefix)
        named == SelectSeq(existing_names, HasPrefix)
        IsDuplicate(n) == is_duplicate_entity(name, n, prefix)
        duplicates == SelectSeq(named, IsDuplicate)
        width == Len(prefix_value(name, prefix))
    IN [i \in 1..Len(duplicates) |-> DuplicateEntity(name, duplicates[i])]
         \o (IF \E i \in 1..Len(named) :
                    Len(prefix_value(named[i], prefix)) # width
             THEN <<DigitWidthDiffers(name)>>
             ELSE <<>>)

\* Mutant: the "warn" mode raises as the "error" mode does.
report_violations_always_raising(violations, mode) ==
    IF Len(violations) > 0
    THEN [raised |-> NeuroBlueprintError(violations[1]),
          warnings |-> <<>>, value |-> None]
    ELSE [raised |-> NoException, warnings |-> <<>>, value |-> None]

\* The two modes: "error" raises on the first violation, "warn" warns of
\* every violation and returns.
report_violations(violations, mode) ==
    IF mode = "error" /\ Len(violations) > 0
    THEN [raised |-> NeuroBlueprintError(violations[1]),
          warnings |-> <<>>, value |-> None]
    ELSE [raised |-> NoException,
          warnings |-> [i \in 1..Len(violations) |->
                            [category |-> "UserWarning",
                             message |-> violations[i]]],
          value |-> None]

\* The violations of the candidate names, in order, against the existing
\* names of their level.
violations_of_names(candidate_names, existing_names, prefix) ==
    concat([i \in 1..Len(candidate_names) |->
                violations_of_name(candidate_names[i], existing_names,
                                   prefix)])

\* validate_names(candidate_names, existing_names, level, mode)
validate_names(candidate_names, existing_names, prefix, mode) ==
    report_violations(
        violations_of_names(candidate_names, existing_names, prefix), mode)

\* The violations among the names of one level of the project: every name
\* that starts with the prefix is held against the other names.
violations_in_level(names, prefix) ==
    concat([i \in 1..Len(names) |->
                IF startswith(names[i], prefix)
                THEN violations_of_name(
                         names[i],
                         SubSeq(names, 1, i - 1)
                             \o SubSeq(names, i + 1, Len(names)),
                         prefix)
                ELSE <<>>])

-----------------------------------------------------------------------------
(* Making folders and validating the project (the public methods that the   *)
(* tests call)                                                              *)

\* The names of all folders of the project, of either level and side.
AllFolderNames == {p[Len(p)] : p \in local \cup central}

\* list_existing_names: the folder names at a level (None: the subjects;
\* a subject name: its sessions) on both sides of the project, in the order
\* in which the folders are read.  order is a list of all folder names.
list_existing_names(level, order) ==
    LET IsAtLevel(n) ==
            n \in FolderNamesAt(local, level) \cup FolderNamesAt(central, level)
    IN SelectSeq(order, IsAtLevel)

\* The names given to make_folders.
OtherSubject == SUB \o DASH \o zfill(py_str(2), default_num_value_digits)

FirstSession == SES \o DASH \o zfill(py_str(1), default_num_value_digits)

SubNamesGiven ==
    {<<SUB \o DASH \o zfill(py_str(1), default_num_value_digits)>>,
     <<SUB \o DASH \o zfill(py_str(1), default_num_value_digits) \o ID_A>>,
     <<OtherSubject>>}

SesNamesGiven == {<<FirstSession>>, <<FirstSession \o ID_A>>}

\* ses_names=None, written as a list
NoNames == <<>>

\* make_folders(sub_names, ses_names): the names are formatted, then held
\* in "error" mode against the existing names of their level (the session
\* names against the sessions of each subject named); when nothing is
\* raised the folders are made in the local project.
make_folders(sub_names, ses_names, order) ==
    LET Validate(processed) ==
            LET subs == processed[1]
                sess == processed[2]
            IN IF subs.raised # NoException THEN subs
               ELSE IF sess.raised # NoException THEN sess
               ELSE report_violations(
                        violations_of_names(
                            subs.value, list_existing_names(None, order),
                            cfg.sub_prefix)
                          \o concat([i \in 1..Len(subs.value) |->
                                        violations_of_names(
                                            sess.value,
                                            list_existing_names(
                                                subs.value[i], order),
                                            cfg.ses_prefix)]),
                        "error")
        Make(processed) ==
            LET subs == processed[1].value
                sess == processed[2].value
                MakeUnless(report) ==
                    [raised |-> report.raised,
                     warnings |-> report.warnings,
                     value |-> None,
                     made |-> IF report.raised # NoException THEN {}
                              ELSE {<<subs[i]>> : i \in 1..Len(subs)}
                                     \cup {<<subs[i], sess[j]>> :
                                               i \in 1..Len(subs),
                                               j \in 1..Len(sess)}]
            IN only({MakeUnless(report) : report \in {Validate(processed)}})
    IN only({Make(processed) :
                 processed \in
                     {<<_process_names(sub_names, "sub"),
                        IF ses_names = NoNames
                        THEN [raised |-> NoException, warnings |-> <<>>,
                              value |-> <<>>]
                        ELSE _process_names(ses_names, "ses")>>}})

\* validate_project(error_or_warn): the violations among the subjects, then
\* among the sessions of each subject.
validate_project(error_or_warn, order) ==
    LET subs == list_existing_names(None, order)
        violations ==
            violations_in_level(subs, cfg.sub_prefix)
              \o concat([i \in 1..Len(subs) |->
                            IF startswith(subs[i], cfg.sub_prefix)
                            THEN violations_in_level(
                                     list_existing_names(subs[i], order),
                                     cfg.ses_prefix)
                            ELSE <<>>])
    IN report_violations(violations, error_or_warn)

-----------------------------------------------------------------------------
(* Operations *)

Idle == [raised |-> NoException, warnings |-> <<>>, value |-> None]

NoCall == [op |-> "none"]

\* The configuration where the model does not follow it: the prefixes are
\* those of cfg, and nothing else of it is read.
NoConfigs == [set |-> FALSE]

\* The subject folder in which the model makes session folders.
FollowedSubject == SUB \o DASH \o zfill(py_str(1), default_num_value_digits)

SearchStrings(prefix) == {prefix \o DASH \o <<"*">>, <<"*">>}

\* default_num_value_digits as passed by callers: the default and one less.
DefaultDigitsPool == {default_num_value_digits - 1, default_num_value_digits}

\* A folder is made on one side of the project: at the top level, or inside
\* the folder of the followed subject or of another where that exists.
MakeFolder ==
    /\ Cardinality(local) + Cardinality(central) < MaxFolders
    /\ \E side \in {"local", "central"} :
         LET paths == IF side = "local" THEN local ELSE central
             new == {<<n>> : n \in NamePool(SUB)}
                      \cup {<<sub, n>> :
                                sub \in {FollowedSubject, OtherSubject}
                                           \cap {p[1] : p \in paths},
                                n \in NamePool(SES)}
         IN \E path \in new \ paths :
              /\ local' = IF side = "local" THEN local \cup {path} ELSE local
              /\ central' = IF side = "central" THEN central \cup {path} ELSE central
    /\ call' = [op |-> "make_folder"]
    /\ ret' = Idle
    /\ UNCHANGED <<configs, logs, tui>>

\* A call of get_next_sub_or_ses_number.
GetNextSubOrSesNumber ==
    \E sub \in {None, FollowedSubject},
       return_with_prefix \in BOOLEAN,
       default_digits \in DefaultDigitsPool :
      \E search_str \in SearchStrings(prefix_for(sub)) :
        /\ call' = [op |-> "get_next_sub_or_ses_number",
                    sub |-> sub,
                    search_str |-> search_str,
                    return_with_prefix |-> return_with_prefix,
                    default_num_value_digits |-> default_digits]
        /\ ret' \in get_next_sub_or_ses_number(
                        sub, search_str, return_with_prefix, default_digits)
        /\ UNCHANGED <<local, central, configs, logs, tui>>

Init ==
    /\ local = {}
    /\ central = {}
    /\ call = NoCall
    /\ ret = Idle
    /\ configs = NoConfigs
    /\ logs = {}
    /\ tui = NoTui

Next ==
    \/ MakeFolder
    \/ GetNextSubOrSesNumber

Spec == Init /\ [][Next]_vars

-----------------------------------------------------------------------------
(* Making and validating folders *)

\* The folders that are made by hand, with os.makedirs, as the tests do:
\* "sub-1" and "sub-002_date-2023".
DATE_2023 == <<"_", "d", "a", "t", "e", "-", "2", "0", "2", "3">>

FoldersMadeByHand == {SUB \o DASH \o py_str(1), OtherSubject \o DATE_2023}

\* os.makedirs of a subject folder, on one side of the project.
OsMakedirs ==
    /\ Cardinality(local) + Cardinality(central) < MaxFolders
    /\ \E name \in FoldersMadeByHand :
         \/ /\ <<name>> \notin local
            /\ local' = local \cup {<<name>>}
            /\ central' = central
         \/ /\ <<name>> \notin central
            /\ central' = central \cup {<<name>>}
            /\ local' = local
    /\ call' = [op |-> "os.makedirs"]
    /\ ret' = Idle
    /\ UNCHANGED <<configs, logs, tui>>

\* A call of make_folders.
MakeFolders ==
    \E sub_names \in SubNamesGiven, ses_names \in SesNamesGiven \cup {NoNames} :
      \E order \in ListsOfSet(AllFolderNames) :
        \E made \in {make_folders(sub_names, ses_names, order)} :
           /\ Cardinality(local \cup made.made) + Cardinality(central)
                  <= MaxFolders
           /\ local' = local \cup made.made
           /\ central' = central
           /\ call' = [op |-> "make_folders", sub_names |-> sub_names,
                       ses_names |-> ses_names]
           /\ ret' = [raised |-> made.raised, warnings |-> made.warnings,
                      value |-> made.value]
           /\ UNCHANGED <<configs, logs, tui>>

\* A call of validate_project.
ValidateProject ==
    \E error_or_warn \in {"error", "warn"} :
      \E order \in ListsOfSet(AllFolderNames) :
        /\ call' = [op |-> "validate_project",
                    error_or_warn |-> error_or_warn]
        /\ ret' = validate_project(error_or_warn, order)
        /\ UNCHANGED <<local, central, configs, logs, tui>>

NextValidate ==
    \/ OsMakedirs
    \/ MakeFolders
    \/ ValidateProject

SpecValidate == Init /\ [][NextValidate]_vars

-----------------------------------------------------------------------------
(* Formatting names *)

QUESTION == <<"?">>
DATE_KEY == <<"_", "d", "a", "t", "e", "-">>

Padded(n) == zfill(py_str(n), default_num_value_digits)

\* The prefix of the names of a level, as the user writes it.
LevelPrefix(sub_or_ses) == (IF sub_or_ses = "sub" THEN SUB ELSE SES) \o DASH

\* A raw name with the names it stands for: the number n alone, and the
\* range from a to b with the endpoints written in the widths wa and wb.
\* pre is what the user wrote of the prefix.
PlainCase(prefix, pre, n, rest) ==
    [raw |-> pre \o Padded(n) \o rest, range |-> FALSE, valid |-> TRUE,
     names |-> <<prefix \o Padded(n) \o rest>>]

RangeCase(prefix, pre, a, wa, b, wb, rest) ==
    [raw |-> pre \o zfill(py_str(a), wa) \o TO_TAG \o zfill(py_str(b), wb)
                 \o rest,
     range |-> TRUE, valid |-> a <= b,
     names |-> IF a > b THEN <<>>
               ELSE [i \in 1..(b - a + 1) |->
                         prefix \o zfill(py_str(a + i - 1),
                                         IF wa > wb THEN wa ELSE wb)
                             \o rest]]

\* The raw names the formatter is given, for the level of a prefix.
CasesWith(prefix) ==
    LET w == default_num_value_digits
    IN {PlainCase(prefix, prefix, n, <<>>) : n \in 1..MaxRange}
        \cup {RangeCase(prefix, prefix, 1, w, b, w, <<>>) : b \in 1..MaxRange}
        \cup {PlainCase(prefix, <<>>, 1, <<>>),
              RangeCase(prefix, prefix, 2, w, MaxRange, w, <<>>),
              RangeCase(prefix, prefix, MaxRange, w, 1, w, <<>>),
              RangeCase(prefix, prefix, 1, 1, MaxRange, w, <<>>),
              RangeCase(prefix, prefix, 1, w, MaxRange, 1, <<>>),
              RangeCase(prefix, <<>>, 1, w, MaxRange - 1, w, ID_A),
              [raw |-> prefix \o Padded(1) \o <<",">> \o prefix \o Padded(1),
               range |-> FALSE, valid |-> TRUE,
               names |-> <<prefix \o Padded(1), prefix \o Padded(1)>>],
              [raw |-> <<" ">> \o prefix \o Padded(1) \o DATE_KEY
                           \o DATE_TAG,
               range |-> FALSE, valid |-> TRUE,
               names |-> <<prefix \o Padded(1) \o DATE_KEY \o Today>>],
              [raw |-> prefix, range |-> FALSE, valid |-> FALSE,
               names |-> <<>>],
              [raw |-> prefix \o Padded(1) \o QUESTION,
               range |-> FALSE, valid |-> FALSE, names |-> <<>>]}

SubCases == CasesWith(LevelPrefix("sub"))

SesCases == CasesWith(LevelPrefix("ses"))

FormatCases(sub_or_ses) == IF sub_or_ses = "sub" THEN SubCases ELSE SesCases

RawNames(sub_or_ses) == {c.raw : c \in FormatCases(sub_or_ses)}

NameLists(sub_or_ses) ==
    UNION {[1..n -> RawNames(sub_or_ses)] : n \in 1..MaxNames}

\* The formatter is a function of its arguments: the arguments of one call
\* are drawn at the start, and the call is then made.
InitFormat ==
    /\ local = {}
    /\ central = {}
    /\ ret = Idle
    /\ configs = NoConfigs
    /\ logs = {}
    /\ tui = NoTui
    /\ \E sub_or_ses \in {"sub", "ses"} :
         \E names \in NameLists(sub_or_ses) :
           call = [op |-> "pending", names |-> names,
                   sub_or_ses |-> sub_or_ses]

\* DataShuttle._process_names(names, sub_or_ses), as the methods that make
\* and transfer folders call it.
ProcessNames ==
    /\ call.op = "pending"
    /\ call' = [call EXCEPT !.op = "_process_names"]
    /\ ret' = _process_names(call.names, call.sub_or_ses)
    /\ UNCHANGED <<local, central, configs, logs, tui>>

NextFormat == ProcessNames

SpecFormat == InitFormat /\ [][NextFormat]_vars

\* The names a call of _process_names returned are given to it again, as
\* _transfer_sub_ses_data does with sub_names and ses_names on the later
\* rounds of its loops (datashuttle.py 660-661, 668-669).
ProcessNamesAgain ==
    /\ call.op = "_process_names"
    /\ ret.raised = NoException
    /\ call' = [op |-> "_process_names again", names |-> call.names,
                sub_or_ses |-> call.sub_or_ses, processed |-> ret.value]
    /\ ret' = _process_names(ret.value, call.sub_or_ses)
    /\ UNCHANGED <<local, central, configs, logs, tui>>

NextFormatTwice == ProcessNames \/ ProcessNamesAgain

SpecFormatTwice == InitFormat /\ [][NextFormatTwice]_vars

-----------------------------------------------------------------------------
(* Data types and their directories (src/datashuttle/datashuttle.py) *)

EPHYS == <<"e", "p", "h", "y", "s">>
BEHAV == <<"b", "e", "h", "a", "v">>
IMAGING == <<"i", "m", "a", "g", "i", "n", "g">>
HISTOLOGY == <<"h", "i", "s", "t", "o", "l", "o", "g", "y">>
CAMERA == <<"c", "a", "m", "e", "r", "a">>
ALL == <<"a", "l", "l">>

\* An argument that is a str or a list of str.
PyStr(chars) == [type |-> "str", chars |-> chars]

PyList(items) == [type |-> "list", items |-> items]

PyNone == [type |-> "NoneType"]

\* x in ["all", ["all"]]
is_all(x) == IF x.type = "str" THEN x.chars = ALL ELSE x.items = <<ALL>>

\* The names in a str or list argument, as a list.
NamesIn(x) == IF x.type = "str" THEN <<x.chars>> ELSE x.items

\* The configuration that make_config_file writes when only the paths are
\* passed: every directory is used.
DefaultConfigs ==
    [set |-> TRUE,
     use_ephys |-> TRUE, use_ephys_behav |-> TRUE,
     use_ephys_behav_camera |-> TRUE,
     use_behav |-> TRUE, use_behav_camera |-> TRUE,
     use_imaging |-> TRUE, use_histology |-> TRUE]

Directory(name, used, subdirs) ==
    [name |-> name, used |-> used, subdirs |-> subdirs]

\* The keys of self._ses_dirs, in the order of the dict.
ses_dirs_keys == <<EPHYS, BEHAV, IMAGING, HISTOLOGY>>

\* self._ses_dirs[key], as set_attributes_after_config_load builds it from
\* the configuration.  The subdirs dict is given as the list of its values.
_ses_dirs(key) ==
    CASE key = EPHYS ->
           Directory(EPHYS, configs.use_ephys,
               <<Directory(BEHAV, configs.use_ephys_behav,
                     <<Directory(CAMERA, configs.use_ephys_behav_camera,
                                 <<>>)>>)>>)
      [] key = BEHAV ->
           Directory(BEHAV, configs.use_behav,
               <<Directory(CAMERA, configs.use_behav_camera, <<>>)>>)
      [] key = IMAGING -> Directory(IMAGING, configs.use_imaging, <<>>)
      [] key = HISTOLOGY -> Directory(HISTOLOGY, configs.use_histology, <<>>)

KeyError(key) == [exception |-> "KeyError", message |-> <<key>>]

TypeError == [exception |-> "TypeError", message |-> <<>>]

UnboundLocalError == [exception |-> "UnboundLocalError", message |-> <<>>]

py_min(a, b) == IF a < b THEN a ELSE b

\* _get_ses_dirs_items_from_list_of_keys(experiment_type): the values are
\* zipped with `key`, the last key of the loop, which is a str: the pairs
\* are (character of the last key, value).
_get_ses_dirs_items_from_list_of_keys(experiment_type) ==
    LET unknown == {i \in 1..Len(experiment_type) :
                        experiment_type[i] \notin Range(ses_dirs_keys)}
        key == experiment_type[Len(experiment_type)]
    IN IF unknown # {}
       THEN [raised |-> KeyError(experiment_type[
                            CHOOSE i \in unknown : \A j \in unknown : i <= j]),
             items |-> <<>>]
       ELSE IF Len(experiment_type) = 0
       THEN [raised |-> UnboundLocalError, items |-> <<>>]
       ELSE [raised |-> NoException,
             items |-> [i \in 1..py_min(Len(key), Len(experiment_type)) |->
                           [key |-> <<key[i]>>,
                            dir |-> _ses_dirs(experiment_type[i])]]]

\* _get_experiment_type_items(experiment_type)
_get_experiment_type_items(experiment_type) ==
    IF experiment_type.type = "list" /\ ALL \notin Range(experiment_type.items)
    THEN _get_ses_dirs_items_from_list_of_keys(experiment_type.items)
    ELSE IF ~is_all(experiment_type)
    THEN IF experiment_type.type = "list"
         THEN [raised |-> TypeError, items |-> <<>>]
         ELSE IF experiment_type.chars \notin Range(ses_dirs_keys)
         THEN [raised |-> KeyError(experiment_type.chars), items |-> <<>>]
         ELSE [raised |-> NoException,
               items |-> <<[key |-> experiment_type.chars,
                            dir |-> _ses_dirs(experiment_type.chars)]>>]
    ELSE [raised |-> NoException,
          items |-> [i \in 1..Len(ses_dirs_keys) |->
                        [key |-> ses_dirs_keys[i],
                         dir |-> _ses_dirs(ses_dirs_keys[i])]]]

-----------------------------------------------------------------------------
(* Searching the project for directories (datashuttle.py 685-777) *)

\* The side of the project that local_or_remote names.
BaseDir(local_or_remote) == IF local_or_remote = "local" THEN local ELSE central

\* The names of the directories directly inside search_path.
DirNamesIn(local_or_remote, search_path) ==
    {p[Len(p)] :
        p \in {q \in BaseDir(local_or_remote) :
                   /\ Len(q) = Len(search_path) + 1
                   /\ SubSeq(q, 1, Len(search_path)) = search_path}}

\* The subject and session names of the model, in the order in which a
\* directory listing gives them.
SubjectNames == [n \in 1..MaxSubs |-> SUB \o DASH \o Padded(n)]

SessionNames == [n \in 1..MaxSess |-> SES \o DASH \o Padded(n)]

ListingOrder == SubjectNames \o SessionNames

\* _search_for_directories(local_or_remote, search_path, search_prefix): the
\* directories inside search_path whose names match search_prefix, over ssh
\* or through the file system.  `order` is the order of the listing.
_search_for_directories(local_or_remote, search_path, search_prefix, order) ==
    LET Matches(name) ==
            /\ name \in DirNamesIn(local_or_remote, search_path)
            /\ fnmatch(name, search_prefix)
    IN SelectSeq(order, Matches)

_search_subs_from_project_dir(local_or_remote, experiment_type) ==
    _search_for_directories(local_or_remote, <<experiment_type>>,
                            cfg.sub_prefix \o <<"*">>, ListingOrder)

_search_ses_from_sub_dir(local_or_remote, experiment_type, sub) ==
    _search_for_directories(local_or_remote, <<experiment_type, sub>>,
                            cfg.ses_prefix \o <<"*">>, ListingOrder)

\* _search_base_dir_for_experiment_directories(local_or_remote): the items
\* of self._ses_dirs whose directory is in the base directory, in the order
\* in which the base directory lists them.
_search_base_dir_for_experiment_directories(local_or_remote, order) ==
    LET top_level_directory_names ==
            _search_for_directories(local_or_remote, <<>>, <<"*">>, order)
        KeysOf(dir_name) ==
            {key \in Range(ses_dirs_keys) : _ses_dirs(key).name = dir_name}
        HasKey(dir_name) == KeysOf(dir_name) # {}
        found == SelectSeq(top_level_directory_names, HasKey)
    IN [i \in 1..Len(found) |->
           [key |-> only(KeysOf(found[i])),
            dir |-> _ses_dirs(only(KeysOf(found[i])))]]

-----------------------------------------------------------------------------
(* rclone arguments (src/datashuttle/utils/rclone.py) *)

\* sep.join(list)
RECURSIVE py_join(_, _)
py_join(sep, list) ==
    IF Len(list) = 0 THEN <<>>
    ELSE IF Len(list) = 1 THEN list[1]
    ELSE list[1] \o sep \o py_join(sep, Tail(list))

\* The words of a command line.
Words(text) ==
    LET NotEmpty(word) == word # <<>>
    IN SelectSeq(split(text, " "), NotEmpty)

DRY_RUN ==
    <<"-", "-", "d", "r", "y", "-", "r", "u", "n">>

CREATE_EMPTY_SRC_DIRS ==
    <<"-", "-", "c", "r", "e", "a", "t", "e", "-", "e", "m", "p", "t",
      "y", "-", "s", "r", "c", "-", "d", "i", "r", "s">>

COPY ==
    <<"c", "o", "p", "y">>

IGNORE_EXISTING ==
    <<"-", "-", "i", "g", "n", "o", "r", "e", "-", "e", "x", "i", "s",
      "t", "i", "n", "g">>

PROGRESS ==
    <<"-", "-", "p", "r", "o", "g", "r", "e", "s", "s">>

\* rclone_args(name)
rclone_args(name) ==
    CASE name = "dry_run" -> DRY_RUN
      [] name = "create_empty_src_dirs" -> CREATE_EMPTY_SRC_DIRS
      [] name = "copy" -> COPY
      [] name = "ignore_existing" -> IGNORE_EXISTING
      [] name = "progress" -> PROGRESS

\* Mutant: existing files are never protected.
overwrite_arguments_never(rclone_options) == <<>>

\* if not rclone_options["overwrite_old_files"]: ...
overwrite_arguments(rclone_options) ==
    IF ~rclone_options.overwrite_old_files
    THEN <<rclone_args("ignore_existing")>> ELSE <<>>

\* if rclone_options["dry_run"]: ...
dry_run_arguments(rclone_options) ==
    IF rclone_options.dry_run THEN <<rclone_args("dry_run")>> ELSE <<>>

\* handle_rclone_arguments(rclone_options, include_list)
handle_rclone_arguments(rclone_options, include_list) ==
    LET extra_arguments_list ==
            <<rclone_args("create_empty_src_dirs")>>
                \o <<<<"-">> \o rclone_options.transfer_verbosity>>
                \o overwrite_arguments(rclone_options)
                \o (IF rclone_options.show_transfer_progress
                    THEN <<rclone_args("progress")>> ELSE <<>>)
                \o dry_run_arguments(rclone_options)
                \o include_list
    IN py_join(<<" ">>, extra_arguments_list)

-----------------------------------------------------------------------------
(* Transfer with rclone (datashuttle.py 467-507, 626-679) *)

\* The text _move_dir_or_file appends for a preview: " --dry_run".
dry_run_argument ==
    <<" ", "-", "-", "d", "r", "y", "_", "r", "u", "n">>

\* _move_dir_or_file(filepath, upload_or_download, preview): the rclone
\* command that is called.  The command line is given by its words.
_move_dir_or_file(filepath, upload_or_download, preview) ==
    [verb |-> "copy",
     source |-> IF upload_or_download = "upload" THEN "local" ELSE "remote",
     destination |->
         IF upload_or_download = "upload" THEN "remote" ELSE "local",
     filepath |-> filepath,
     extra_arguments |->
         CREATE_EMPTY_SRC_DIRS
             \o (IF preview THEN dry_run_argument ELSE <<>>)]

\* for ses in ses_names: the session directories of one subject are moved.
MoveSessions(dir, sub, ses_names, upload_or_download, preview) ==
    [k \in 1..Len(ses_names) |->
        _move_dir_or_file(<<dir.name, sub, ses_names[k]>>,
                          upload_or_download, preview)]

\* for sub in sub_names, from the j-th subject on.  ses_names is the
\* variable of that name as the loop finds it; it is assigned in the loop.
RECURSIVE TransferSubjects(_, _, _, _, _, _, _)
TransferSubjects(item, sub_names, j, ses_names, local_or_remote, upload_or_download, preview) ==
    LET Rest(found) ==
            LET After(rest) ==
                    [raised |-> rest.raised, ses_names |-> rest.ses_names,
                     moves |-> py_list(MoveSessions(
                                   item.dir, sub_names[j], found.value,
                                   upload_or_download, preview))
                                 \o rest.moves]
            IN IF found.raised # NoException
               THEN [raised |-> found.raised, ses_names |-> ses_names,
                     moves |-> <<>>]
               ELSE only({After(rest) :
                            rest \in {TransferSubjects(
                                          item, sub_names, j + 1,
                                          PyList(found.value),
                                          local_or_remote,
                                          upload_or_download, preview)}})
    IN IF j > Len(sub_names)
       THEN [raised |-> NoException, ses_names |-> ses_names, moves |-> <<>>]
       ELSE only({Rest(found) :
                    found \in
                      {IF ~is_all(ses_names)
                       THEN _process_names(NamesIn(ses_names), "ses")
                       ELSE [raised |-> NoException,
                             value |-> _search_ses_from_sub_dir(
                                           local_or_remote, item.key,
                                           sub_names[j])]}})

\* for experiment_type_key, experiment_type_dir in experiment_type_items,
\* from the t-th item on.  sub_names and ses_names are the variables of
\* those names as the loop finds them; both are assigned in the loop.
RECURSIVE TransferDataTypes(_, _, _, _, _, _, _)
TransferDataTypes(items, t, sub_names, ses_names, local_or_remote, upload_or_download, preview) ==
    LET Subjects(found) ==
            LET Rest(inner) ==
                    LET After(rest) ==
                            [raised |-> rest.raised,
                             moves |-> inner.moves \o rest.moves]
                    IN IF inner.raised # NoException
                       THEN [raised |-> inner.raised, moves |-> inner.moves]
                       ELSE only({After(rest) :
                                    rest \in {TransferDataTypes(
                                                  items, t + 1,
                                                  PyList(found.value),
                                                  inner.ses_names,
                                                  local_or_remote,
                                                  upload_or_download,
                                                  preview)}})
            IN IF found.raised # NoException
               THEN [raised |-> found.raised, moves |-> <<>>]
               ELSE only({Rest(inner) :
                            inner \in {TransferSubjects(
                                           items[t], found.value, 1,
                                           ses_names, local_or_remote,
                                           upload_or_download, preview)}})
    IN IF t > Len(items)
       THEN [raised |-> NoException, moves |-> <<>>]
       ELSE only({Subjects(found) :
                    found \in
                      {IF ~is_all(sub_names)
                       THEN _process_names(NamesIn(sub_names), "sub")
                       ELSE [raised |-> NoException,
                             value |-> _search_subs_from_project_dir(
                                           local_or_remote, items[t].key)]}})

\* _transfer_sub_ses_data(upload_or_download, experiment_type, sub_names,
\* ses_names, preview): what is raised, and the rclone commands called.
_transfer_sub_ses_data(upload_or_download, experiment_type, sub_names, ses_names, preview, order) ==
    LET local_or_remote ==
            IF upload_or_download = "upload" THEN "local" ELSE "remote"
        Transfer(experiment_type_items) ==
            IF experiment_type_items.raised # NoException
            THEN [raised |-> experiment_type_items.raised, moves |-> <<>>]
            ELSE TransferDataTypes(py_list(experiment_type_items.items), 1,
                                   sub_names, ses_names, local_or_remote,
                                   upload_or_download, preview)
    IN only({Transfer(experiment_type_items) :
               experiment_type_items \in
                 {IF ~is_all(experiment_type)
                  THEN _get_experiment_type_items(experiment_type)
                  ELSE [raised |-> NoException,
                        items |->
                            _search_base_dir_for_experiment_directories(
                                local_or_remote, order)]}})

\* The arguments that rclone copy knows, of those that datashuttle passes.
rclone_flags ==
    {CREATE_EMPTY_SRC_DIRS, DRY_RUN, IGNORE_EXISTING, PROGRESS,
     <<"-", "v">>, <<"-", "v", "v">>}

\* What a side of the project holds once rclone has run a copy command
\* whose destination it is.  rclone stops at an argument it does not know,
\* and copies nothing on a dry run or when the source is not there.
rclone_copy(command, from, to) ==
    IF /\ Range(Words(command.extra_arguments)) \subseteq rclone_flags
       /\ DRY_RUN \notin Range(Words(command.extra_arguments))
       /\ command.filepath \in from
    THEN to \cup {SubSeq(command.filepath, 1, n) :
                      n \in 1..Len(command.filepath)}
            \cup {p \in from :
                      /\ Len(p) > Len(command.filepath)
                      /\ SubSeq(p, 1, Len(command.filepath))
                             = command.filepath}
    ELSE to

\* The destination after the commands of a transfer, called in order.
RECURSIVE call_rclone(_, _, _)
call_rclone(commands, from, to) ==
    IF Len(commands) = 0 THEN to
    ELSE call_rclone(Tail(commands), from,
                     rclone_copy(Head(commands), from, to))

-----------------------------------------------------------------------------
(* Transferring data *)

\* The session directories that are in the project before datashuttle is
\* asked to transfer: made on this machine, or sent to the central project
\* from another machine.
SessionDirs ==
    {<<type, SubjectNames[i], SessionNames[j]>> :
         type \in {EPHYS, BEHAV}, i \in 1..MaxSubs, j \in 1..MaxSess}

WithParents(path) == {SubSeq(path, 1, n) : n \in 1..Len(path)}

SessionsIn(side) == {p \in side : Len(p) = 3}

InitProject ==
    /\ local = {}
    /\ central = {}
    /\ call = NoCall
    /\ ret = Idle
    /\ configs = DefaultConfigs
    /\ logs = {}
    /\ tui = NoTui

\* A session directory appears on one side of the project.
SessionAppears ==
    /\ Cardinality(SessionsIn(local)) + Cardinality(SessionsIn(central))
           < MaxSessionDirs
    /\ \E path \in SessionDirs :
         \/ /\ path \notin local
            /\ local' = local \cup WithParents(path)
            /\ central' = central
         \/ /\ path \notin central
            /\ central' = central \cup WithParents(path)
            /\ local' = local
    /\ call' = [op |-> "os.makedirs"]
    /\ ret' = Idle
    /\ UNCHANGED <<configs, logs, tui>>

\* The arguments given to upload_data and download_data.
ExperimentTypesTransferred == {PyStr(ALL), PyStr(EPHYS)}

SubNamesTransferred == {PyStr(ALL), PyList(<<SubjectNames[1]>>)}

SesNamesTransferred == {PyStr(ALL), PyList(<<SessionNames[1]>>)}

\* The orders in which the base directory of the source lists its
\* directories.
ListingOrders(local_or_remote) ==
    ListsOfSet(DirNamesIn(local_or_remote, <<>>))

\* upload_data(experiment_type, sub_names, ses_names, preview)
UploadData ==
    \E experiment_type \in ExperimentTypesTransferred,
       sub_names \in SubNamesTransferred,
       ses_names \in SesNamesTransferred,
       preview \in BOOLEAN :
      \E order \in ListingOrders("local") :
        \E done \in {_transfer_sub_ses_data("upload", experiment_type,
                         sub_names, ses_names, preview, order)} :
          /\ central' = call_rclone(done.moves, local, central)
          /\ call' = [op |-> "upload",
                      experiment_type |-> experiment_type,
                      sub_names |-> sub_names, ses_names |-> ses_names,
                      preview |-> preview]
          /\ ret' = [raised |-> done.raised, warnings |-> <<>>,
                     value |-> None, moves |-> done.moves]
          /\ UNCHANGED <<local, configs, logs, tui>>

\* download_data(experiment_type, sub_names, ses_names, preview)
DownloadData ==
    \E experiment_type \in ExperimentTypesTransferred,
       sub_names \in SubNamesTransferred,
       ses_names \in SesNamesTransferred,
       preview \in BOOLEAN :
      \E order \in ListingOrders("remote") :
        \E done \in {_transfer_sub_ses_data("download", experiment_type,
                         sub_names, ses_names, preview, order)} :
          /\ local' = call_rclone(done.moves, central, local)
          /\ call' = [op |-> "download",
                      experiment_type |-> experiment_type,
                      sub_names |-> sub_names, ses_names |-> ses_names,
                      preview |-> preview]
          /\ ret' = [raised |-> done.raised, warnings |-> <<>>,
                     value |-> None, moves |-> done.moves]
          /\ UNCHANGED <<central, configs, logs, tui>>

NextTransfer ==
    \/ SessionAppears
    \/ UploadData
    \/ DownloadData

SpecTransfer == InitProject /\ [][NextTransfer]_vars

-----------------------------------------------------------------------------
(* Building the arguments of rclone *)

INCLUDE == <<"-", "-", "i", "n", "c", "l", "u", "d", "e">>

\* The entries of an include list: --include and what is to be included.
IncludeEntries ==
    {INCLUDE \o <<" ">> \o SubjectNames[1],
     INCLUDE \o <<" ">> \o SubjectNames[1] \o <<"/">> \o SessionNames[1]}

IncludeLists == UNION {[1..n -> IncludeEntries] : n \in 0..MaxIncludes}

RcloneOptions ==
    [transfer_verbosity : {<<"v">>, <<"v", "v">>},
     overwrite_old_files : BOOLEAN,
     show_transfer_progress : BOOLEAN,
     dry_run : BOOLEAN]

\* handle_rclone_arguments is a function of its arguments: the arguments of
\* one call are drawn at the start, and the call is then made.
InitRclone ==
    /\ local = {}
    /\ central = {}
    /\ ret = Idle
    /\ configs = NoConfigs
    /\ logs = {}
    /\ tui = NoTui
    /\ \E rclone_options \in RcloneOptions, include_list \in IncludeLists :
         call = [op |-> "pending", rclone_options |-> rclone_options,
                 include_list |-> include_list]

\* handle_rclone_arguments(rclone_options, include_list), as transfer_data
\* calls it.
HandleRcloneArguments ==
    /\ call.op = "pending"
    /\ call' = [call EXCEPT !.op = "handle_rclone_arguments"]
    /\ ret' = [raised |-> NoException, warnings |-> <<>>,
               value |-> handle_rclone_arguments(call.rclone_options,
                                                 call.include_list)]
    /\ UNCHANGED <<local, central, configs, logs, tui>>

NextRclone == HandleRcloneArguments

SpecRclone == InitRclone /\ [][NextRclone]_vars

-----------------------------------------------------------------------------
(* Checks of the configuration                                              *)
(* (src/datashuttle/utils_mod/canonical_configs.py)                          *)

\* The values of a config: a type and, for a str or a Path, the text; for a
\* bool the text of str(value).
NoneValue == [type |-> "NoneType", v |-> <<>>]

StrValue(text) == [type |-> "str", v |-> text]

PathValue(text) == [type |-> "Path", v |-> text]

BoolValue(b) ==
    [type |-> "bool",
     v |-> IF b THEN <<"T", "r", "u", "e">> ELSE <<"F", "a", "l", "s", "e">>]

\* bool(value)
truth(value) ==
    CASE value.type = "NoneType" -> FALSE
      [] value.type = "bool" -> value.v = BoolValue(TRUE).v
      [] value.type = "str" -> Len(value.v) > 0
      [] value.type = "Path" -> TRUE

\* A dict is the list of its items, in the order of insertion.
keys(dict) == [i \in 1..Len(dict) |-> dict[i].key]

\* dict[key], for a key of the dict
item(dict, key) == dict[CHOOSE i \in 1..Len(dict) : dict[i].key = key].value

\* get_canonical_config_dict().keys()
canonical_keys ==
    <<"local_path", "remote_path", "connection_method", "remote_host_id",
      "remote_host_username", "use_ephys", "use_behav", "use_imaging",
      "use_histology">>

\* get_experiment_types()
get_experiment_types ==
    <<"use_ephys", "use_behav", "use_imaging", "use_histology">>

\* get_canonical_config_required_types()[key]
required_types(key) ==
    CASE key \in {"local_path", "remote_path"} -> {"str", "Path"}
      [] key = "connection_method" -> {"str"}
      [] key \in {"remote_host_id", "remote_host_username"} ->
             {"str", "NoneType"}
      [] key \in Range(get_experiment_types) -> {"bool"}

SSH ==
    <<"s", "s", "h">>

LOCAL_FILESYSTEM ==
    <<"l", "o", "c", "a", "l", "_", "f", "i", "l", "e", "s", "y", "s",
      "t", "e", "m">>

\* The first element of a list that is in a set, as a loop that raises at
\* the first one finds it.
first_in(list, S) ==
    list[CHOOSE i \in 1..Len(list) :
             list[i] \in S /\ \A j \in 1..(i - 1) : list[j] \notin S]

\* check_config_types(config_dict): what it raises
check_config_types(config_dict) ==
    LET wrong == {key \in Range(keys(config_dict)) :
                      item(config_dict, key).type \notin required_types(key)}
    IN IF wrong = {} THEN NoException
       ELSE raise_error(<<"The type of the value at",
                          first_in(keys(config_dict), wrong),
                          "is incorrect. Config file was not updated.">>)

AttributeError == [exception |-> "AttributeError", message |-> <<>>]

\* config_dict["connection_method"] == "ssh" and (not ... or not ...)
ssh_settings_missing(config_dict) ==
    /\ item(config_dict, "connection_method").v = SSH
    /\ \/ ~truth(item(config_dict, "remote_host_id"))
       \/ ~truth(item(config_dict, "remote_host_username"))

\* Mutant: the order of the keys is not looked at.
keys_in_wrong_order_never(config_dict) == FALSE

\* list(config_dict.keys()) != list(canonical_dict.keys())
keys_in_wrong_order(config_dict) == keys(config_dict) # canonical_keys

\* The messages of check_dict_values_and_inform_user
KeyNotFound(key) ==
    <<"Loading Failed. The key", key,
      "was not found in the supplied config.",
      "Config file was not updated.">>

InvalidKey(key) ==
    <<"The supplied config contains an invalid key:", key,
      "Config file was not updated.">>

SshSettingsRequired ==
    <<"remote_host_id and remote_host_username are",
      "required if connection_method is ssh.">>

\* check_dict_values_and_inform_user(config_dict): what it raises
check_dict_values_and_inform_user(config_dict) ==
    LET missing == Range(canonical_keys) \ Range(keys(config_dict))
        invalid == Range(keys(config_dict)) \ Range(canonical_keys)
        types == check_config_types(config_dict)
    IN IF missing # {}
       THEN raise_error(KeyNotFound(first_in(canonical_keys, missing)))
       ELSE IF invalid # {}
       THEN raise_error(InvalidKey(first_in(keys(config_dict), invalid)))
       ELSE IF types # NoException THEN types
       ELSE IF keys_in_wrong_order(config_dict)
       THEN raise_error(<<"New config keys are in the wrong order.",
                          "The order should be:", canonical_keys>>)
       ELSE IF item(config_dict, "connection_method").v
                   \notin {SSH, LOCAL_FILESYSTEM}
       THEN raise_error(<<"connection method must be ssh or local">>)
       ELSE IF item(config_dict, "remote_path").type = "str"
       THEN AttributeError
       ELSE IF Head(item(config_dict, "remote_path").v) = "~"
       THEN raise_error(<<"remote_path must contain the full directory",
                          "path with no ~ syntax">>)
       ELSE IF \A i \in 1..Len(get_experiment_types) :
                   ~truth(item(config_dict, get_experiment_types[i]))
       THEN raise_error(<<"At least one experiment_type must be True in",
                          "configs, from:", get_experiment_types>>)
       ELSE IF ssh_settings_missing(config_dict)
       THEN raise_error(SshSettingsRequired)
       ELSE NoException

-----------------------------------------------------------------------------
(* Checking configs *)

FTP ==
    <<"f", "t", "p">>

HOST ==
    <<"h", "o", "s", "t">>

USER ==
    <<"u", "s", "e", "r">>

LOCAL_DIR ==
    <<"/", "l", "o", "c", "a", "l">>

REMOTE_DIR ==
    <<"/", "r", "e", "m", "o", "t", "e">>

HOME_DIR ==
    <<"~", "/", "r", "e", "m", "o", "t", "e">>

\* A config with the canonical keys in the canonical order, and with every
\* data type used.
ConfigWith(connection_method, remote_host_id, remote_host_username) ==
    <<[key |-> "local_path", value |-> PathValue(LOCAL_DIR)],
      [key |-> "remote_path", value |-> PathValue(REMOTE_DIR)],
      [key |-> "connection_method", value |-> StrValue(connection_method)],
      [key |-> "remote_host_id", value |-> remote_host_id],
      [key |-> "remote_host_username", value |-> remote_host_username],
      [key |-> "use_ephys", value |-> BoolValue(TRUE)],
      [key |-> "use_behav", value |-> BoolValue(TRUE)],
      [key |-> "use_imaging", value |-> BoolValue(TRUE)],
      [key |-> "use_histology", value |-> BoolValue(TRUE)]>>

\* The dict without its k-th item, with an item more, with two items
\* exchanged, and with another value at a key.
Without(dict, k) == SubSeq(dict, 1, k - 1) \o SubSeq(dict, k + 1, Len(dict))

ExtraItem == [key |-> "use_microscopy", value |-> BoolValue(TRUE)]

WithExtra(dict, k) ==
    SubSeq(dict, 1, k - 1) \o <<ExtraItem>> \o SubSeq(dict, k, Len(dict))

Exchanged(dict, k) ==
    [i \in 1..Len(dict) |->
        IF i = k THEN dict[k + 1] ELSE IF i = k + 1 THEN dict[k] ELSE dict[i]]

WithValue(dict, key, value) ==
    [i \in 1..Len(dict) |->
        IF dict[i].key = key THEN [key |-> key, value |-> value]
        ELSE dict[i]]

\* The configs that are checked: those with the canonical keys, and what
\* becomes of them when up to MaxKeyChanges keys are taken out, put in or
\* moved, or a value is changed. No key is twice in a dict.
PlainConfigs ==
    {ConfigWith(connection_method, remote_host_id, remote_host_username) :
         connection_method \in {SSH, LOCAL_FILESYSTEM, FTP},
         remote_host_id \in {NoneValue, StrValue(<<>>), StrValue(HOST)},
         remote_host_username \in {NoneValue, StrValue(USER)}}

Changed(dicts) ==
    UNION {{Without(dict, k) : k \in {1, 3, 4, 9} \cap 1..Len(dict)}
             \cup {WithExtra(dict, k) : k \in {1, Len(dict) + 1}}
             \cup {Exchanged(dict, k) :
                       k \in {1, 4, 8} \cap 1..(Len(dict) - 1)}
             \cup {WithValue(dict, "use_ephys", StrValue(BoolValue(TRUE).v)),
                   WithValue(dict, "remote_path", PathValue(HOME_DIR)),
                   WithValue(dict, "remote_path", StrValue(REMOTE_DIR))} :
           dict \in dicts}

RECURSIVE ChangedTimes(_, _)
ChangedTimes(dicts, n) ==
    IF n = 0 THEN dicts
    ELSE dicts \cup ChangedTimes({dict \in Changed(dicts) :
                                      Cardinality(Range(keys(dict)))
                                          = Len(dict)}, n - 1)

ConfigDicts == ChangedTimes(PlainConfigs, MaxKeyChanges)

\* check_dict_values_and_inform_user is a function of its argument: the
\* config of one call is drawn at the start, and the call is then made.
InitCheck ==
    /\ local = {}
    /\ central = {}
    /\ ret = Idle
    /\ configs = NoConfigs
    /\ logs = {}
    /\ tui = NoTui
    /\ \E config_dict \in ConfigDicts :
         call = [op |-> "pending", config_dict |-> config_dict]

\* check_dict_values_and_inform_user(config_dict), as it is run after any
\* change to the configs.
CheckDictValuesAndInformUser ==
    /\ call.op = "pending"
    /\ call' = [call EXCEPT !.op = "check_dict_values_and_inform_user"]
    /\ ret' = [raised |-> check_dict_values_and_inform_user(call.config_dict),
               warnings |-> <<>>, value |-> None]
    /\ UNCHANGED <<local, central, configs, logs, tui>>

NextCheck == CheckDictValuesAndInformUser

SpecCheck == InitCheck /\ [][NextCheck]_vars

-----------------------------------------------------------------------------
(* Making directories (src/datashuttle/datashuttle.py 122-175, 532-620)      *)

\* The folder that make_datashuttle_metadata_folder makes in a session.
DATASHUTTLE_META ==
    <<".", "d", "a", "t", "a", "s", "h", "u", "t", "t", "l", "e">>

\* The message of _check_experiment_type_is_valid
NotValidExperimentType(experiment_type) ==
    <<"experiment_type:", experiment_type, "is not valid. Must be one of",
      ses_dirs_keys, "No directories were made.">>

\* Mutant: every experiment_type is taken as valid.
is_valid_always(experiment_type) == TRUE

\* is_valid of _check_experiment_type_is_valid
is_valid(experiment_type) ==
    IF experiment_type.type = "list"
    THEN \A i \in 1..Len(experiment_type.items) :
             experiment_type.items[i] \in Range(ses_dirs_keys) \cup {ALL}
    ELSE \/ experiment_type.chars \in Range(ses_dirs_keys)
         \/ experiment_type.chars = ALL

\* _check_experiment_type_is_valid(experiment_type, prompt_on_fail): what it
\* returns and the messages it gives the user.
_check_experiment_type_is_valid(experiment_type, prompt_on_fail) ==
    [value |-> is_valid(experiment_type),
     messages |-> IF prompt_on_fail /\ ~is_valid(experiment_type)
                  THEN <<NotValidExperimentType(experiment_type)>>
                  ELSE <<>>]

\* experiment_type_dir.used
used(directory) == directory.used

\* recursive_make_subdirs(directory, path_to_dir): the directories it makes
RECURSIVE recursive_make_subdirs(_, _)
recursive_make_subdirs(directory, path_to_dir) ==
    UNION {IF used(directory.subdirs[i])
           THEN {path_to_dir \o <<directory.subdirs[i].name>>}
                  \cup recursive_make_subdirs(
                           directory.subdirs[i],
                           path_to_dir \o <<directory.subdirs[i].name>>)
           ELSE {} :
           i \in 1..Len(directory.subdirs)}

\* make_ses_directory_tree(sub, ses, experiment_type_dir): the directories
\* it makes
make_ses_directory_tree(sub, ses, experiment_type_dir) ==
    IF used(experiment_type_dir)
    THEN recursive_make_subdirs(experiment_type_dir,
                                <<experiment_type_dir.name, sub, ses>>)
    ELSE {}

\* The body of `if experiment_type_dir.used:` in _make_directory_trees: the
\* directories that are made for one data type.
dirs_of_experiment_type(experiment_type_dir, sub_names, ses_names, make_ses_tree) ==
    {<<experiment_type_dir.name>>}
      \cup {<<experiment_type_dir.name, sub_names[i]>> :
                i \in 1..Len(sub_names)}
      \cup UNION {{<<experiment_type_dir.name, sub_names[i], ses_names[j]>>,
                   <<experiment_type_dir.name, sub_names[i], ses_names[j],
                     DATASHUTTLE_META>>}
                    \cup (IF make_ses_tree
                          THEN make_ses_directory_tree(
                                   sub_names[i], ses_names[j],
                                   experiment_type_dir)
                          ELSE {}) :
                  i \in 1..Len(sub_names), j \in 1..Len(ses_names)}

\* _make_directory_trees(experiment_type, sub_names, ses_names,
\* make_ses_tree, process_names): what it raises, the messages it gives and
\* the directories it makes.  `process` is the argument process_names; when
\* it is false, sub_names and ses_names are what _process_names returned.
_make_directory_trees(experiment_type, sub_names, ses_names, make_ses_tree, process) ==
    LET Nothing(raised, messages) ==
            [raised |-> raised, messages |-> messages, dirs |-> {}]
        Make(subs, sess, items) ==
            [raised |-> NoException, messages |-> <<>>,
             dirs |-> UNION {IF used(items[t].dir)
                             THEN dirs_of_experiment_type(
                                      items[t].dir, subs, sess, make_ses_tree)
                             ELSE {} :
                             t \in 1..Len(items)}]
        Trees(subs, sess) ==
            LET check == _check_experiment_type_is_valid(experiment_type, TRUE)
                WithItems(found) ==
                    IF found.raised # NoException
                    THEN Nothing(found.raised, <<>>)
                    ELSE Make(subs.value, sess.value, found.items)
            IN IF subs.raised # NoException THEN Nothing(subs.raised, <<>>)
               ELSE IF sess.raised # NoException
               THEN Nothing(sess.raised, <<>>)
               ELSE IF ~check.value THEN Nothing(NoException, check.messages)
               ELSE only({WithItems(found) :
                            found \in
                              {_get_experiment_type_items(experiment_type)}})
    IN only({Trees(processed[1], processed[2]) :
               processed \in
                 {IF process
                  THEN <<_process_names(NamesIn(sub_names), "sub"),
                         _process_names(NamesIn(ses_names), "ses")>>
                  ELSE <<[raised |-> NoException, value |-> sub_names],
                         [raised |-> NoException, value |-> ses_names]>>}})

\* make_sub_dir(experiment_type, sub_names, ses_names, make_ses_tree)
make_sub_dir(experiment_type, sub_names, ses_names, make_ses_tree) ==
    LET Trees(subs, sess) ==
            IF subs.raised # NoException
            THEN [raised |-> subs.raised, messages |-> <<>>, dirs |-> {}]
            ELSE IF sess.raised # NoException
            THEN [raised |-> sess.raised, messages |-> <<>>, dirs |-> {}]
            ELSE _make_directory_trees(experiment_type, subs.value,
                                       sess.value, make_ses_tree, FALSE)
    IN only({Trees(processed[1], processed[2]) :
               processed \in
                 {<<_process_names(NamesIn(sub_names), "sub"),
                    IF ses_names = PyNone
                    THEN [raised |-> NoException,
                          value |-> IF make_ses_tree
                                    THEN <<cfg.ses_prefix \o Padded(1)>>
                                    ELSE <<>>]
                    ELSE _process_names(NamesIn(ses_names), "ses")>>}})

\* make_empty_ses_dir(experiment_type, sub_names, ses_names)
make_empty_ses_dir(experiment_type, sub_names, ses_names) ==
    _make_directory_trees(experiment_type, sub_names, ses_names, FALSE, TRUE)

\* The configs that make_config_file accepts for the use_ arguments: one
\* data type at least is used.
UsedConfigs ==
    {c \in [DOMAIN DefaultConfigs -> BOOLEAN] :
         /\ c.set
         /\ \E i \in 1..Len(get_experiment_types) : c[get_experiment_types[i]]}

\* The arguments given to make_sub_dir and make_empty_ses_dir.
ExperimentTypesMade ==
    {PyStr(ALL), PyStr(EPHYS), PyStr(BEHAV), PyStr(CAMERA), PyList(<<ALL>>),
     PyList(<<EPHYS, BEHAV>>), PyList(<<HISTOLOGY, CAMERA>>),
     PyList(<<ALL, EPHYS>>), PyList(<<>>)}

SubNamesMade ==
    {PyStr(SubjectNames[1]), PyList(py_list(SubjectNames)),
     PyList(<<SubjectNames[1] \o QUESTION>>)}

SesNamesMade == {PyStr(SessionNames[1]), PyList(py_list(SessionNames))}

\* The local project before the call: empty, or with a session of the first
\* subject made when every directory was used.
ProjectsBefore ==
    {{},
     UNION {WithParents(dir) :
                dir \in {<<EPHYS, SubjectNames[1], SessionNames[1], BEHAV>>,
                         <<BEHAV, SubjectNames[1], SessionNames[1]>>}}}

CallsMade ==
    {[op |-> "pending", method |-> "make_sub_dir",
      experiment_type |-> experiment_type, sub_names |-> sub_names,
      ses_names |-> ses_names, make_ses_tree |-> make_ses_tree] :
         experiment_type \in ExperimentTypesMade, sub_names \in SubNamesMade,
         ses_names \in SesNamesMade \cup {PyNone},
         make_ses_tree \in BOOLEAN}
      \cup {[op |-> "pending", method |-> "make_empty_ses_dir",
             experiment_type |-> experiment_type, sub_names |-> sub_names,
             ses_names |-> ses_names, make_ses_tree |-> FALSE] :
                experiment_type \in ExperimentTypesMade,
                sub_names \in SubNamesMade, ses_names \in SesNamesMade}

\* The directories one call makes depend on the configs and on its
\* arguments: the project is set up with make_config_file, and one call
\* that makes directories follows.
InitMakeDirs ==
    /\ local \in ProjectsBefore
    /\ central = {}
    /\ ret = Idle
    /\ configs \in UsedConfigs
    /\ logs = {}
    /\ tui = NoTui
    /\ call \in CallsMade

\* make_sub_dir(experiment_type, sub_names, ses_names, make_ses_tree)
MakeSubDir ==
    /\ call.op = "pending"
    /\ call.method = "make_sub_dir"
    /\ \E done \in {make_sub_dir(call.experiment_type, call.sub_names,
                                 call.ses_names, call.make_ses_tree)} :
         /\ local' = local \cup UNION {WithParents(dir) : dir \in done.dirs}
         /\ ret' = [raised |-> done.raised, warnings |-> <<>>,
                    value |-> None, messages |-> done.messages,
                    made |-> done.dirs \ local]
    /\ call' = [call EXCEPT !.op = "make_sub_dir"]
    /\ UNCHANGED <<central, configs, logs, tui>>

\* make_empty_ses_dir(experiment_type, sub_names, ses_names)
MakeEmptySesDir ==
    /\ call.op = "pending"
    /\ call.method = "make_empty_ses_dir"
    /\ \E done \in {make_empty_ses_dir(call.experiment_type, call.sub_names,
                                       call.ses_names)} :
         /\ local' = local \cup UNION {WithParents(dir) : dir \in done.dirs}
         /\ ret' = [raised |-> done.raised, warnings |-> <<>>,
                    value |-> None, messages |-> done.messages,
                    made |-> done.dirs \ local]
    /\ call' = [call EXCEPT !.op = "make_empty_ses_dir"]
    /\ UNCHANGED <<central, configs, logs, tui>>

NextMakeDirs ==
    \/ MakeSubDir
    \/ MakeEmptySesDir

SpecMakeDirs == InitMakeDirs /\ [][NextMakeDirs]_vars

-----------------------------------------------------------------------------
(* The logs of the calls that set the configs                                *)
(* (src/tests/tests_integration/test_logging.py 331-459)                     *)

\* project._temp_log_path, and the logs folder of a local_path
\* (local_path / ".datashuttle" / "logs").
_temp_log_path == [folder |-> "temp_logs", local_path |-> <<>>]

logging_path(local_path) == [folder |-> "logs", local_path |-> local_path]

\* A log file: its name holds the command and the time of the call.
LogFile(path_to_log, command_name, time) ==
    [path |-> path_to_log, command |-> command_name, time |-> time]

\* glob.glob(path / "*.log")
LogsIn(files, path_to_log) == {log \in files : log.path = path_to_log}

\* project._clear_temp_log_path()
_clear_temp_log_path(files) == files \ LogsIn(files, _temp_log_path)

\* Mutant: the log is started with the temporary folder as it is.
_start_log_without_clearing(files, command_name, time) ==
    files \cup {LogFile(_temp_log_path, command_name, time)}

\* The log of a call that sets the configs is started in the temporary
\* folder, which is cleared before logging begins.
_start_log(files, command_name, time) ==
    _clear_temp_log_path(files)
      \cup {LogFile(_temp_log_path, command_name, time)}

\* The logs of the temporary folder are moved to the logs folder of the
\* local_path that the call has set.
_move_logs_from_temp_folder(files, local_path) ==
    _clear_temp_log_path(files)
      \cup {LogFile(logging_path(local_path), log.command, log.time) :
                log \in LogsIn(files, _temp_log_path)}

NEW_LOCAL_DIR ==
    <<"/", "n", "e", "w", "_", "p", "a", "t", "h">>

\* The configs passed to make_config_file, or read from the file passed to
\* supply_config_file: a project path or another as local_path, a full
\* remote path or "~".
ConfigsPassed ==
    {WithValue(WithValue(ConfigWith(LOCAL_FILESYSTEM, NoneValue, NoneValue),
                         "local_path", PathValue(local_path)),
               "remote_path", PathValue(remote_path)) :
         local_path \in {LOCAL_DIR, NEW_LOCAL_DIR},
         remote_path \in {REMOTE_DIR, HOME_DIR}}

InitLogs ==
    /\ local = {}
    /\ central = {}
    /\ call = [op |-> "none", time |-> 0]
    /\ ret = Idle
    /\ configs = NoConfigs
    /\ logs = {}
    /\ tui = NoTui

\* A call that sets the configs from config_dict and logs as command_name:
\* the log is started in the temporary folder, the configs are checked, and
\* when they are accepted they are set and the log is moved.
SetConfigs(command_name, op, config_dict) ==
    \E started \in {_start_log(logs, command_name, call.time + 1)},
       raised \in {check_dict_values_and_inform_user(config_dict)} :
      /\ call.time < MaxCalls
      /\ call' = [op |-> op, time |-> call.time + 1,
                  config_dict |-> config_dict]
      /\ ret' = [raised |-> raised, warnings |-> <<>>, value |-> None]
      /\ IF raised = NoException
         THEN /\ configs' = [set |-> TRUE,
                             local_path |-> item(config_dict, "local_path").v]
              /\ logs' = _move_logs_from_temp_folder(
                             started, item(config_dict, "local_path").v)
         ELSE /\ configs' = configs
              /\ logs' = started
      /\ UNCHANGED <<local, central, tui>>

\* make_config_file(**configs)
MakeConfigFile ==
    \E config_dict \in ConfigsPassed :
      SetConfigs("make-config-file", "make_config_file", config_dict)

\* supply_config_file(new_configs_path, warn=False)
SupplyConfigFile ==
    \E config_dict \in ConfigsPassed :
      SetConfigs("supply-config-file", "supply_config_file", config_dict)

\* project._clear_temp_log_path()
ClearTempLogPath ==
    /\ logs' = _clear_temp_log_path(logs)
    /\ call' = [op |-> "_clear_temp_log_path", time |-> call.time]
    /\ ret' = Idle
    /\ UNCHANGED <<local, central, configs, tui>>

NextLogs ==
    \/ MakeConfigFile
    \/ SupplyConfigFile
    \/ ClearTempLogPath

SpecLogs == InitLogs /\ [][NextLogs]_vars

-----------------------------------------------------------------------------
(* Calls of the number suggester that run at the same time                   *)
(* (src/datashuttle/utils/getters.py 21-96)                                  *)

Threads == 1..MaxThreads

\* Mutant: the calls keep what they compute in one place.
frame_of_first_call(t) == 1

\* The local variables of a call (folder_names, all_folders and what
\* get_max_sub_or_ses_num_and_value_length gave) are those of its own frame.
frame(t) == t

\* The folders of the project while the calls run.
FoldersWhileCalled ==
    {<<SUB \o DASH \o Padded(1)>>, <<SUB \o DASH \o Padded(3)>>,
     <<SUB \o DASH \o py_str(2)>>,
     <<FollowedSubject, SES \o DASH \o Padded(1)>>}

CentralWhileCalled == {<<SUB \o DASH \o Padded(2)>>}

\* A local variable before it is assigned, and with its value.
Unbound == [bound |-> FALSE]

Bound(value) == [bound |-> TRUE, value |-> value]

\* The arguments of the calls.
CallsOfSuggester ==
    {[pc |-> "called", sub |-> sub,
      search_str |-> prefix_for(sub) \o DASH \o <<"*">>,
      return_with_prefix |-> return_with_prefix,
      default_num_value_digits |-> default_num_value_digits,
      folder_names |-> Unbound, all_folders |-> Unbound,
      found |-> Unbound] :
         sub \in {None, FollowedSubject}, return_with_prefix \in BOOLEAN}

\* The project is as it is, and every thread has called
\* get_next_sub_or_ses_number.
InitThreads ==
    /\ local \in SUBSET FoldersWhileCalled
    /\ central \in SUBSET CentralWhileCalled
    /\ call \in [Threads -> CallsOfSuggester]
    /\ ret = [t \in Threads |-> Idle]
    /\ configs = NoConfigs
    /\ logs = {}
    /\ tui = NoTui

\* folder_names = folders.search_project_for_sub_or_ses_names(...)
SearchProject ==
    \E t \in Threads :
      /\ call[t].pc = "called"
      /\ call' = [call EXCEPT
                    ![t].pc = "searched",
                    ![frame(t)].folder_names =
                        Bound(search_project_for_sub_or_ses_names(
                                  call[t].sub, call[t].search_str))]
      /\ UNCHANGED <<local, central, ret, configs, logs, tui>>

\* all_folders = list(set(folder_names["local"] + folder_names["central"]))
ListAllFolders ==
    \E t \in Threads :
      /\ call[t].pc = "searched"
      /\ call[frame(t)].folder_names.bound
      /\ \E all_folders \in
             ListsOfSet(all_folder_names(
                            call[frame(t)].folder_names.value)) :
           call' = [call EXCEPT ![t].pc = "listed",
                                ![frame(t)].all_folders = Bound(all_folders)]
      /\ UNCHANGED <<local, central, ret, configs, logs, tui>>

\* max_existing_num, num_value_digits =
\*     get_max_sub_or_ses_num_and_value_length(all_folders, prefix, ...)
GetMaxAndValueLength ==
    \E t \in Threads :
      /\ call[t].pc = "listed"
      /\ call[frame(t)].all_folders.bound
      /\ \E found \in {get_max_sub_or_ses_num_and_value_length(
                           call[frame(t)].all_folders.value,
                           prefix_for(call[t].sub),
                           call[t].default_num_value_digits)} :
           IF found.raised # NoException
           THEN /\ call' = [call EXCEPT ![t].pc = "returned",
                                        ![frame(t)].found = Bound(found)]
                /\ ret' = [ret EXCEPT ![t] = [raised |-> found.raised,
                                              warnings |-> found.warnings,
                                              value |-> None]]
           ELSE /\ call' = [call EXCEPT ![t].pc = "found",
                                        ![frame(t)].found = Bound(found)]
                /\ ret' = ret
      /\ UNCHANGED <<local, central, configs, logs, tui>>

\* suggested_new_num = max_existing_num + 1, and the formatted number is
\* returned.
ReturnSuggestedNum ==
    \E t \in Threads :
      /\ call[t].pc = "found"
      /\ call[frame(t)].found.bound
      /\ \E formatted \in
             {format_suggested_new_num(
                  suggested_new_num(call[frame(t)].found.value.max_existing_num),
                  call[frame(t)].found.value.num_value_digits)} :
           ret' = [ret EXCEPT
                     ![t] = [raised |-> NoException,
                             warnings |-> call[frame(t)].found.value.warnings,
                             value |-> IF call[t].return_with_prefix
                                       THEN prefix_for(call[t].sub) \o DASH
                                              \o formatted
                                       ELSE formatted]]
      /\ call' = [call EXCEPT ![t].pc = "returned"]
      /\ UNCHANGED <<local, central, configs, logs, tui>>

NextThreads ==
    \/ SearchProject
    \/ ListAllFolders
    \/ GetMaxAndValueLength
    \/ ReturnSuggestedNum

SpecThreads == InitThreads /\ [][NextThreads]_vars

-----------------------------------------------------------------------------
(* Asking for the next number and making the suggested folder                *)
(* (src/datashuttle/utils/getters.py 21-96)                                  *)

\* The numbers a level holds at the start, with the width they are written
\* in: none, a run from 1, and runs that end at 9 and at 999.
RunsAtStart ==
    {[numbers |-> {}, width |-> default_num_value_digits],
     [numbers |-> {1}, width |-> default_num_value_digits],
     [numbers |-> {1, 2}, width |-> default_num_value_digits - 1],
     [numbers |-> {8, 9}, width |-> 1],
     [numbers |-> {TopNum}, width |-> default_num_value_digits]}

\* The folder of a name at the level of the subject passed.
FolderAt(sub, name) == IF sub = None THEN <<name>> ELSE <<sub, name>>

\* The project holds a run of numbers at the level asked about.
InitRun ==
    /\ \E sub \in {None, FollowedSubject}, run \in RunsAtStart :
         /\ local = {FolderAt(sub, prefix_for(sub) \o DASH
                                       \o zfill(py_str(n), run.width)) :
                         n \in run.numbers}
                      \cup (IF sub = None THEN {} ELSE {<<sub>>})
         /\ call = [op |-> "none", sub |-> sub, made |-> 0, asked |-> 0]
    /\ central = {}
    /\ ret = Idle
    /\ configs = NoConfigs
    /\ logs = {}
    /\ tui = NoTui

\* get_next_sub_or_ses_number(cfg, sub, "sub-*" or "ses-*"), at the start
\* and after the folder suggested before was made.
AskForNextNumber ==
    /\ call.op \in {"none", "make_suggested_folder"}
    /\ ret' \in get_next_sub_or_ses_number(
                    call.sub, prefix_for(call.sub) \o DASH \o <<"*">>, TRUE,
                    default_num_value_digits)
    /\ call' = [op |-> "get_next_sub_or_ses_number", sub |-> call.sub,
                search_str |-> prefix_for(call.sub) \o DASH \o <<"*">>,
                return_with_prefix |-> TRUE,
                default_num_value_digits |-> default_num_value_digits,
                made |-> call.made, asked |-> call.asked + 1,
                before |-> IF call.op = "none" THEN <<>> ELSE call.name]
    /\ UNCHANGED <<local, central, configs, logs, tui>>

\* The folder with exactly the suggested name is made, locally or centrally.
MakeSuggestedFolder ==
    /\ call.op = "get_next_sub_or_ses_number"
    /\ ret.raised = NoException
    /\ call.made < MaxSuggestedMade
    /\ \/ /\ local' = local \cup {FolderAt(call.sub, ret.value)}
          /\ central' = central
       \/ /\ central' = central \cup {FolderAt(call.sub, ret.value)}
          /\ local' = local
    /\ call' = [op |-> "make_suggested_folder", sub |-> call.sub,
                name |-> ret.value, made |-> call.made + 1,
                asked |-> call.asked]
    /\ ret' = Idle
    /\ UNCHANGED <<configs, logs, tui>>

NextRun ==
    \/ AskForNextNumber
    \/ MakeSuggestedFolder

SpecRun == InitRun /\ [][NextRun]_vars

-----------------------------------------------------------------------------
(* The screen that sets the configs                                          *)
(* (src/datashuttle/tui/project_config.py)                                   *)

\* `self.config_ssh_widgets`: two labels and two inputs.
config_ssh_widgets ==
    <<"Label: Central Host ID", "configs_central_host_id_input",
      "Label: Central Host Username", "configs_central_host_username_input">>

\* The radio buttons of "configs_connect_method_radioset".
RadioButtons ==
    {"configs_local_filesystem_radiobutton", "configs_ssh_radiobutton"}

\* RadioButton("Local Filesystem", ...), RadioButton("SSH", ...)
label(radiobutton) ==
    IF radiobutton = "configs_ssh_radiobutton" THEN "SSH"
    ELSE "Local Filesystem"

\* The screen is on the stack and its dismiss was not called.
NotDismissed == [dismissed |-> FALSE]

\* compose(): the widgets as they are made, the radio buttons off, the
\* checkbox with value=False, every widget displayed, on NewProjectScreen
\* (project=None) or on the screen of an existing project.
compose(project) ==
    [screens |-> <<[name |-> IF project = PyNone THEN "NewProjectScreen"
                             ELSE "TabbedContent"]>>,
     project |-> project,
     mounted |-> FALSE,
     value |-> [w \in RadioButtons \cup {"configs_overwrite_files_checkbox"}
                  |-> FALSE],
     display |-> [w \in Range(config_ssh_widgets) |-> TRUE],
     messages |-> <<>>,
     dismissed |-> NotDismissed,
     changes |-> 0,
     attempts |-> 0,
     config_made |-> {},
     raised |-> {},
     error_dialogs |-> {},
     ok_pressed |-> {}]

\* Mutant: the SSH widgets are displayed whichever button was pressed.
display_bool_always(pressed_label) == TRUE

\* `display_bool = True if str(event.pressed.label) == "SSH" else False`
display_bool(pressed_label) == pressed_label = "SSH"

\* switch_ssh_widgets_display(display_bool)
switch_ssh_widgets_display(t, bool) ==
    [t EXCEPT !.display = [w \in DOMAIN t.display |-> bool]]

\* `radiobutton.value = v`: a button that turns on turns the other button of
\* the radio set off, and the set posts RadioSet.Changed with the button as
\* `pressed`; a value that does not change posts nothing.
set_radiobutton_value(t, radiobutton, v) ==
    IF v /\ ~t.value[radiobutton]
    THEN [t EXCEPT !.value = [w \in DOMAIN t.value |->
                                IF w \in RadioButtons THEN w = radiobutton
                                ELSE t.value[w]],
                   !.messages = Append(@, label(radiobutton))]
    ELSE [t EXCEPT !.value[radiobutton] = v]

\* fill_widgets_with_project_configs(), the widgets the model follows
fill_widgets_with_project_configs(t, project_cfg) ==
    LET ssh_on == project_cfg.connection_method = SSH
        ssh_set == set_radiobutton_value(t, "configs_ssh_radiobutton", ssh_on)
        local_set == set_radiobutton_value(
                         ssh_set, "configs_local_filesystem_radiobutton",
                         ~ssh_on)
        switched == switch_ssh_widgets_display(local_set, ssh_on)
    IN  [switched EXCEPT !.value["configs_overwrite_files_checkbox"] =
                             project_cfg.overwrite_old_files]

\* on_mount()
on_mount(t, project_cfg) ==
    IF t.project # PyNone
    THEN fill_widgets_with_project_configs(t, project_cfg)
    ELSE LET local_set == set_radiobutton_value(
                              t, "configs_local_filesystem_radiobutton", TRUE)
             switched == switch_ssh_widgets_display(local_set, FALSE)
         IN  [switched EXCEPT !.value["configs_overwrite_files_checkbox"] =
                                  FALSE]

\* get_datashuttle_inputs_from_widgets(), the widgets the model follows
get_datashuttle_inputs_from_widgets(t) ==
    [set |-> TRUE,
     connection_method |-> IF t.value["configs_ssh_radiobutton"] THEN SSH
                           ELSE LOCAL_FILESYSTEM,
     overwrite_old_files |-> t.value["configs_overwrite_files_checkbox"]]

\* screen.dismiss(result): the screen leaves the stack and its callback gets
\* the result.
dismiss(t, result, button) ==
    [t EXCEPT !.screens = <<>>,
              !.dismissed = [dismissed |-> TRUE, result |-> result,
                             button |-> button]]

\* Mutant: the callback of the pushed screen is called at once.
push_screen_and_call_back(t, screen) ==
    IF screen.callback # PyNone
    THEN dismiss(t, screen.callback, "none")
    ELSE [t EXCEPT !.screens = Append(@, screen)]

\* mainwindow.push_screen(screen, callback): the screen is put on top; the
\* callback waits until the screen is dismissed.
push_screen(t, screen) == [t EXCEPT !.screens = Append(@, screen)]

\* mainwindow.show_modal_error_dialog(str(e))
show_modal_error_dialog(t, attempt) ==
    [t EXCEPT !.screens = Append(@, [name |-> "ModalErrorDialog",
                                     callback |-> PyNone]),
              !.error_dialogs = @ \cup {attempt}]

\* The screen on top of the stack takes the clicks and keys.
OnTop(name) ==
    /\ tui.screens # <<>>
    /\ tui.screens[Len(tui.screens)].name = name

\* The project names typed into "configs_name_input".
ProjectNames == {"", "my_first_project"}

\* The existing projects whose configs the screen shows.
ExistingProjects ==
    {[type |-> "DataShuttle", project_name |-> "my_first_project",
      attempt |-> 0]}

\* The screen is made for a new project or for an existing one, and waits
\* to be mounted.
InitConfigsScreen ==
    /\ local = {}
    /\ central = {}
    /\ call = NoCall
    /\ ret = Idle
    /\ logs = {}
    /\ \E project \in {PyNone} \cup ExistingProjects :
         /\ tui = compose(project)
         /\ IF project = PyNone
            THEN configs = NoConfigs
            ELSE \E connection_method \in {SSH, LOCAL_FILESYSTEM},
                    overwrite_old_files \in BOOLEAN :
                   configs = [set |-> TRUE,
                              connection_method |-> connection_method,
                              overwrite_old_files |-> overwrite_old_files]

\* ConfigsContent.on_mount
OnMount ==
    /\ ~tui.mounted
    /\ tui' = [on_mount(tui, configs) EXCEPT !.mounted = TRUE]
    /\ UNCHANGED <<local, central, call, ret, configs, logs>>

\* The user presses the radio button that is off.
PressRadioButton ==
    /\ tui.mounted
    /\ \/ OnTop("NewProjectScreen")
       \/ OnTop("TabbedContent")
    /\ tui.changes < MaxWidgetChanges
    /\ \E radiobutton \in RadioButtons :
         /\ ~tui.value[radiobutton]
         /\ tui' = [set_radiobutton_value(tui, radiobutton, TRUE)
                        EXCEPT !.changes = @ + 1]
    /\ UNCHANGED <<local, central, call, ret, configs, logs>>

\* The user clicks the checkbox 'Overwrite Old Files'.
PressOverwriteCheckbox ==
    /\ tui.mounted
    /\ \/ OnTop("NewProjectScreen")
       \/ OnTop("TabbedContent")
    /\ tui.changes < MaxWidgetChanges
    /\ tui' = [tui EXCEPT !.value["configs_overwrite_files_checkbox"] = ~@,
                          !.changes = @ + 1]
    /\ UNCHANGED <<local, central, call, ret, configs, logs>>

\* ConfigsContent.on_radio_set_changed, for the message posted first
OnRadioSetChanged ==
    /\ tui.screens # <<>>
    /\ tui.messages # <<>>
    /\ tui' = switch_ssh_widgets_display(
                  [tui EXCEPT !.messages = Tail(@)],
                  display_bool(Head(tui.messages)))
    /\ UNCHANGED <<local, central, call, ret, configs, logs>>

\* setup_configs_for_a_new_project_and_switch_to_tab_screen(), called by
\* on_button_pressed for 'Configure Project' when there is no project:
\* DataShuttle(project_name) or make_config_file raises, or both return.
setup_configs_for_a_new_project_and_switch_to_tab_screen ==
    /\ tui.mounted
    /\ OnTop("NewProjectScreen")
    /\ tui.attempts < MaxAttempts
    /\ \E project_name \in ProjectNames,
          raising \in {"DataShuttle", "make_config_file", "none"} :
         LET attempt == tui.attempts + 1
             project == [type |-> "DataShuttle",
                         project_name |-> project_name, attempt |-> attempt]
             tried == [tui EXCEPT !.attempts = attempt]
         IN  IF raising = "none"
             THEN /\ configs' = get_datashuttle_inputs_from_widgets(tui)
                  /\ tui' = push_screen(
                                [tried EXCEPT !.config_made = @ \cup {attempt}],
                                [name |-> "ShowConfigsDialog",
                                 callback |-> project])
             ELSE /\ configs' = configs
                  /\ tui' = show_modal_error_dialog(
                                [tried EXCEPT !.raised = @ \cup {attempt}],
                                attempt)
    /\ UNCHANGED <<local, central, call, ret, logs>>

\* setup_configs_for_an_existing_project(), called by on_button_pressed for
\* 'Configure Project' when there is a project
setup_configs_for_an_existing_project ==
    /\ tui.mounted
    /\ OnTop("TabbedContent")
    /\ tui.attempts < MaxAttempts
    /\ \E raising \in {"make_config_file", "none"} :
         LET attempt == tui.attempts + 1
             tried == [tui EXCEPT !.attempts = attempt]
         IN  IF raising = "none"
             THEN /\ configs' = get_datashuttle_inputs_from_widgets(tui)
                  /\ tui' = push_screen(
                                [tried EXCEPT !.config_made = @ \cup {attempt}],
                                [name |-> "ShowConfigsDialog",
                                 callback |-> PyNone])
             ELSE /\ configs' = configs
                  /\ tui' = show_modal_error_dialog(
                                [tried EXCEPT !.raised = @ \cup {attempt}],
                                attempt)
    /\ UNCHANGED <<local, central, call, ret, logs>>

\* ShowConfigsDialog.on_button_pressed: self.dismiss(None), and then the
\* callback `lambda _: self.parent_class.dismiss(project)` where one was
\* given.
ShowConfigsDialogOnButtonPressed ==
    /\ OnTop("ShowConfigsDialog")
    /\ LET dialog == tui.screens[Len(tui.screens)]
           closed == [tui EXCEPT !.screens = SubSeq(@, 1, Len(@) - 1)]
       IN  IF dialog.callback # PyNone
           THEN tui' = dismiss(
                           [closed EXCEPT !.ok_pressed =
                                              @ \cup {dialog.callback.attempt}],
                           dialog.callback, "OK")
           ELSE tui' = closed
    /\ UNCHANGED <<local, central, call, ret, configs, logs>>

\* The user closes the error dialog.
CloseModalErrorDialog ==
    /\ OnTop("ModalErrorDialog")
    /\ tui' = [tui EXCEPT !.screens = SubSeq(@, 1, Len(@) - 1)]
    /\ UNCHANGED <<local, central, call, ret, configs, logs>>

\* NewProjectScreen.on_button_pressed for "all_main_menu_buttons"
NewProjectScreenOnButtonPressed ==
    /\ OnTop("NewProjectScreen")
    /\ tui' = dismiss(tui, PyNone, "all_main_menu_buttons")
    /\ UNCHANGED <<local, central, call, ret, configs, logs>>

NextConfigsScreen ==
    \/ OnMount
    \/ PressRadioButton
    \/ PressOverwriteCheckbox
    \/ OnRadioSetChanged
    \/ setup_configs_for_a_new_project_and_switch_to_tab_screen
    \/ setup_configs_for_an_existing_project
    \/ ShowConfigsDialogOnButtonPressed
    \/ CloseModalErrorDialog
    \/ NewProjectScreenOnButtonPressed

SpecConfigsScreen == InitConfigsScreen /\ [][NextConfigsScreen]_vars

-----------------------------------------------------------------------------
(* The Create tab: filling an input with the next subject or session         *)
(* (src/datashuttle/tui/tabs/create_folders.py)                              *)

\* Name templates: "sub-<n>_id-a" and "ses-<n>_date-x_run-1".
SUB_TEMPLATE == SUB \o DASH \o <<"N">> \o ID_A

SES_TEMPLATE ==
    SES \o DASH \o <<"N">>
        \o <<"_", "d", "a", "t", "e", "-", "x", "_", "r", "u", "n", "-", "1">>

\* What interface.get_name_templates() can return.
NameTemplates ==
    {[on |-> on, sub |-> sub, ses |-> ses] :
        on \in BOOLEAN, sub \in {PyNone, PyStr(SUB_TEMPLATE)},
        ses \in {PyNone, PyStr(SES_TEMPLATE)}}

\* `self.interface.get_name_templates()[prefix]`
name_template(t, prefix) ==
    IF prefix = SUB THEN t.name_templates.sub ELSE t.name_templates.ses

\* Mutant: a template that is set is used whether templates are on or not.
templates_on_when_set(t, prefix) == name_template(t, prefix) # PyNone

\* templates_on(prefix)
templates_on(t, prefix) ==
    /\ t.name_templates.on
    /\ name_template(t, prefix) # PyNone

\* The end of fill_input_with_next_sub_or_ses_template: the value that is
\* put into the input, given `next_val`.  The subject input is kept as the
\* list of names that its as_names_list() gives, a filled value being one
\* name.
fill_input(t, prefix, next_val) ==
    LET fill_value ==
            IF templates_on(t, prefix)
            THEN only({py_join(<<"_">>, <<next_val>> \o Tail(split_name)) :
                          split_name \in
                              {split(name_template(t, prefix).chars, "_")}})
            ELSE next_val
    IN  IF prefix = SUB
        THEN [t EXCEPT !.subject_input = <<fill_value>>]
        ELSE [t EXCEPT !.session_input = fill_value]

\* Messages of the error dialogs.
SingleSubjectOnly ==
    "Can only suggest next session number when a single subject is provided."

SubjectFirst ==
    "Must input a subject number before suggesting next session number."

\* What the subject input can hold: nothing, one name, two names, a name
\* followed by a comma.
SubjectInputs ==
    {<<<<>>>>, <<FollowedSubject>>, <<OtherSubject>>,
     <<FollowedSubject, OtherSubject>>, <<FollowedSubject, <<>>>>}

\* What the user types into the session input.
SessionInputs == {<<>>, SES \o DASH \o Padded(9)}

\* The local projects the tab is opened on.
ProjectsOfTab ==
    {{}, {<<FollowedSubject>>},
     {<<FollowedSubject>>, <<FollowedSubject, FirstSession>>},
     {<<FollowedSubject>>, <<FollowedSubject, FirstSession>>,
      <<FollowedSubject, SES \o DASH \o <<"0", "2">>>>}}

\* The tab is shown, its inputs empty.
InitCreateTab ==
    /\ local \in ProjectsOfTab
    /\ central = {}
    /\ call = NoCall
    /\ ret = Idle
    /\ configs = NoConfigs
    /\ logs = {}
    /\ \E name_templates \in NameTemplates :
         tui = [screens |-> <<[name |-> "TabbedContent"]>>,
                subject_input |-> <<<<>>>>,
                session_input |-> <<>>,
                name_templates |-> name_templates,
                error_dialogs |-> {},
                clicks |-> 0,
                clicked |-> <<>>]

\* The user types into the subject input.
TypeSubjects ==
    /\ OnTop("TabbedContent")
    /\ \E sub_names \in SubjectInputs :
         tui' = [tui EXCEPT !.subject_input = sub_names]
    /\ UNCHANGED <<local, central, call, ret, configs, logs>>

\* The user types into the session input.
TypeSession ==
    /\ OnTop("TabbedContent")
    /\ \E value \in SessionInputs :
         tui' = [tui EXCEPT !.session_input = value]
    /\ UNCHANGED <<local, central, call, ret, configs, logs>>

\* on_clickable_input_clicked with button 3 on the subject or the session
\* input: fill_input_with_next_sub_or_ses_template(prefix, input_id).  The
\* interface asks get_next_sub_or_ses_number for the name with its prefix;
\* what it raises is not caught here, and the input is not filled then.
FillInputWithNextSubOrSesTemplate ==
    /\ OnTop("TabbedContent")
    /\ tui.clicks < MaxClicks
    /\ \E prefix \in Prefixes :
         LET clicked == [tui EXCEPT !.clicks = @ + 1, !.clicked = prefix]
             sub_names == tui.subject_input
         IN  IF prefix = SES /\ Len(sub_names) > 1
             THEN /\ tui' = show_modal_error_dialog(clicked, SingleSubjectOnly)
                  /\ UNCHANGED <<call, ret>>
             ELSE IF prefix = SES /\ sub_names = <<<<>>>>
             THEN /\ tui' = show_modal_error_dialog(clicked, SubjectFirst)
                  /\ UNCHANGED <<call, ret>>
             ELSE \E sub \in {IF prefix = SES THEN sub_names[1] ELSE None} :
                    \E next \in get_next_sub_or_ses_number(
                                    sub, prefix \o DASH \o <<"*">>, TRUE,
                                    default_num_value_digits) :
                      /\ call' = [op |-> "get_next_sub_or_ses_number",
                                  sub |-> sub,
                                  search_str |-> prefix \o DASH \o <<"*">>,
                                  return_with_prefix |-> TRUE,
                                  default_num_value_digits |->
                                      default_num_value_digits]
                      /\ ret' = next
                      /\ tui' = IF next.raised = NoException
                                THEN fill_input(clicked, prefix, next.value)
                                ELSE clicked
    /\ UNCHANGED <<local, central, configs, logs>>

NextCreateTab ==
    \/ TypeSubjects
    \/ TypeSession
    \/ FillInputWithNextSubOrSesTemplate
    \/ CloseModalErrorDialog

SpecCreateTab == InitCreateTab /\ [][NextCreateTab]_vars

-----------------------------------------------------------------------------
(* What the claims about the number suggester speak of.  These definitions  *)
(* describe the project and the result; they are not used by the model.    *)

SuggestReturned == call.op = "get_next_sub_or_ses_number"

\* The prefix the call is expected to suggest for.
ExpectedPrefix == IF call.sub = None THEN SUB ELSE SES

\* The existing name set of the call: the folders at the searched level, on
\* either side of the project, that match the search string.
ExistingNames ==
    LET at(side) == IF call.sub = None
                    THEN {p[1] : p \in {q \in side : Len(q) = 1}}
                    ELSE {p[2] : p \in {q \in side :
                                           Len(q) = 2 /\ q[1] = call.sub}}
        glob == SubSeq(call.search_str, 1, Len(call.search_str) - 1)
    IN {n \in at(local) \cup at(central) :
            Len(n) >= Len(glob) /\ SubSeq(n, 1, Len(glob)) = glob}

\* The existing names that start with "<prefix>-".
PrefixedNames ==
    {n \in ExistingNames :
         /\ Len(n) > Len(ExpectedPrefix)
         /\ SubSeq(n, 1, Len(ExpectedPrefix) + 1) = ExpectedPrefix \o DASH}

\* The prefix value of a prefixed name.
ValueIn(n) == UpToUnderscore(SubSeq(n, Len(ExpectedPrefix) + 2, Len(n)))

ExistingWidths == {Len(ValueIn(n)) : n \in PrefixedNames}

ExistingNumbers == {py_int(ValueIn(n)) : n \in PrefixedNames}

MaxExisting == CHOOSE m \in ExistingNumbers : \A x \in ExistingNumbers : x <= m

\* The existing numbers are a run m, m+1, ..., with one folder for each.
ExistingConsecutive ==
    /\ \A n1, n2 \in PrefixedNames :
           n1 # n2 => py_int(ValueIn(n1)) # py_int(ValueIn(n2))
    /\ \A x \in ExistingNumbers :
           x = MaxExisting \/ (x + 1) \in ExistingNumbers

\* The number of decimal digits of n >= 1.
NumDigits(n) == CHOOSE d \in 1..(default_num_value_digits + 2) :
                    Pow10(d - 1) <= n /\ n < Pow10(d)

Larger(a, b) == IF a >= b THEN a ELSE b

\* The value string of the suggestion (the suggestion without "<prefix>-").
SuggestedValue ==
    IF call.return_with_prefix
    THEN SubSeq(ret.value, Len(ExpectedPrefix) + 2, Len(ret.value))
    ELSE ret.value

\* The suggestion carries the prefix exactly when it was asked for.
PrefixAsAsked ==
    call.return_with_prefix =>
        /\ Len(ret.value) > Len(ExpectedPrefix) + 1
        /\ SubSeq(ret.value, 1, Len(ExpectedPrefix) + 1) = ExpectedPrefix \o DASH

\* The suggestion is the number n written in decimal with `width` digits, or
\* with as many as n needs when that is more.
SuggestionIs(n, width) ==
    /\ ret.raised = NoException
    /\ ret.value # None
    /\ PrefixAsAsked
    /\ \A i \in 1..Len(SuggestedValue) : IsDigit(SuggestedValue[i])
    /\ py_int(SuggestedValue) = n
    /\ Len(SuggestedValue) = Larger(width, NumDigits(n))

Str_sub_001 == <<"s", "u", "b", "-", "0", "0", "1">>
Str_sub_1000 == <<"s", "u", "b", "-", "1", "0", "0", "0">>

-----------------------------------------------------------------------------
\* C1: when the existing name set of a call is empty (no folder at the
\* searched level, locally or centrally), get_next_sub_or_ses_number returns
\* the number 1 zero-padded to default_num_value_digits, without error or
\* warning.
C1_EmptyGivesOne ==
    (SuggestReturned /\ ExistingNames = {}) =>
        /\ SuggestionIs(1, call.default_num_value_digits)
        /\ ret.warnings = <<>>

\* An empty subject level and the default width 3 gave "sub-001".
C1_Witness ==
    /\ SuggestReturned
    /\ ExistingNames = {}
    /\ call.sub = None
    /\ call.return_with_prefix
    /\ call.default_num_value_digits = default_num_value_digits
    /\ ret.value = Str_sub_001

\* C2: when the existing names have prefix values that all have one digit
\* width w, get_next_sub_or_ses_number returns max(existing values) + 1,
\* zero-padded to w, with "sub-" / "ses-" in front when asked for.
C2_MaxPlusOne ==
    (SuggestReturned /\ Cardinality(ExistingWidths) = 1) =>
        \A w \in ExistingWidths : SuggestionIs(MaxExisting + 1, w)

\* Two or more subjects of one width, not numbered from 1 without a gap,
\* gave a suggestion.
C2_Witness ==
    /\ SuggestReturned
    /\ Cardinality(ExistingWidths) = 1
    /\ Cardinality(ExistingNumbers) >= 2
    /\ ~ExistingConsecutive
    /\ ret.value # None

\* C3: when the existing names have prefix values of different digit widths,
\* the call raises a NeuroBlueprintError that cites the inconsistent number
\* of value digits, and returns no suggestion.
C3_MixedWidthsRaiseNeuroBlueprintError ==
    (SuggestReturned /\ Cardinality(ExistingWidths) > 1) =>
        /\ ret.raised.exception = "NeuroBlueprintError"
        /\ ret.raised.message = DigitsNotConsistent(ExpectedPrefix)
        /\ ret.value = None

\* What the call does on mixed widths: it raises, with that message, and
\* returns nothing.
C3_MixedWidthsRaise ==
    (SuggestReturned /\ Cardinality(ExistingWidths) > 1) =>
        /\ ret.raised.exception # "None"
        /\ ret.raised.message = DigitsNotConsistent(ExpectedPrefix)
        /\ ret.value = None

C3_Witness ==
    /\ SuggestReturned
    /\ Cardinality(ExistingWidths) > 1
    /\ ret.raised.exception # "None"

\* The numbers a skipped-number warning lists are the existing numbers, one
\* for each prefixed folder, in ascending order.
ListsUsedNumbers(w) ==
    /\ w.category = "UserWarning"
    /\ LET nums == w.message[2]
       IN /\ Len(nums) = Cardinality(PrefixedNames)
          /\ Range(nums) = ExistingNumbers
          /\ \A i \in 1..(Len(nums) - 1) : nums[i] <= nums[i + 1]

\* C4: a call that passes the digit-width check emits one warning listing
\* the used numbers exactly when the existing numbers are not a consecutive
\* run; the warning is not fatal (max + 1 is returned by the same call); no
\* warning is emitted in any other case.
C4_GapWarns ==
    SuggestReturned =>
        /\ (Cardinality(ExistingWidths) = 1 /\ ~ExistingConsecutive) =>
               /\ Len(ret.warnings) = 1
               /\ ListsUsedNumbers(ret.warnings[1])
               /\ \A w \in ExistingWidths : SuggestionIs(MaxExisting + 1, w)
        /\ (Cardinality(ExistingWidths) = 1 /\ ExistingConsecutive) =>
               ret.warnings = <<>>
        /\ ret.warnings # <<>> =>
               /\ Cardinality(ExistingWidths) = 1
               /\ ~ExistingConsecutive
               /\ ret.raised = NoException
               /\ ret.value # None

\* A gap in the numbers gave a warning and a suggestion.
C4_Witness ==
    /\ SuggestReturned
    /\ Len(ret.warnings) = 1
    /\ ret.value # None
    /\ Cardinality(ExistingNumbers) >= 2

\* C5: names that do not start with the expected prefix are ignored; when the
\* existing name set is not empty but none of its names starts with the
\* prefix, the result is 1 padded to the default digit width, without error.
C5_OnlyOtherNamesGiveOne ==
    (SuggestReturned /\ ExistingNames # {} /\ PrefixedNames = {}) =>
        SuggestionIs(1, call.default_num_value_digits)

\* The call was made on a name set that holds only names without the prefix.
C5_Witness ==
    /\ SuggestReturned
    /\ ExistingNames # {}
    /\ PrefixedNames = {}

\* C6: the suggested value is never truncated and its width never grown in
\* advance: its length is the larger of the established width and the number
\* of digits of the suggested number.
C6_NoTruncationNoGrowth ==
    (SuggestReturned /\ ret.raised = NoException) =>
        LET width == IF ExistingNames = {}
                     THEN call.default_num_value_digits
                     ELSE CHOOSE w \in ExistingWidths : TRUE
            n == py_int(SuggestedValue)
        IN /\ n = (IF ExistingNames = {} THEN 0 ELSE MaxExisting) + 1
           /\ Len(SuggestedValue) = Larger(width, NumDigits(n))
           /\ n < Pow10(width) => Len(SuggestedValue) = width

\* Width 3 and maximum 999 gave "sub-1000".
C6_Witness ==
    /\ SuggestReturned
    /\ ExistingWidths = {default_num_value_digits}
    /\ MaxExisting = TopNum
    /\ ret.value = Str_sub_1000


-----------------------------------------------------------------------------
(* What the claims about the formatter speak of.  These definitions describe *)
(* the arguments and the result of a call; they are not used by the model.   *)

FormatCalled == call.op = "_process_names"

FormatReturned == FormatCalled /\ ret.raised = NoException

\* What is known of the i-th raw name of the call.
CaseOf(i) ==
    CHOOSE c \in FormatCases(call.sub_or_ses) : c.raw = call.names[i]

AllValid == \A i \in 1..Len(call.names) : CaseOf(i).valid

\* The names the raw names of the call stand for, in input order.
NamesAsked == concat([i \in 1..Len(call.names) |-> CaseOf(i).names])

\* The names that the raw names before the i-th stand for.
Earlier(i) == UNION {Range(CaseOf(j).names) : j \in 1..(i - 1)}

\* The names of the i-th raw name that no earlier raw name stands for.
Fresh(i) ==
    LET IsFresh(n) == n \notin Earlier(i)
    IN SelectSeq(CaseOf(i).names, IsFresh)

\* block is in list from position k on, and before it are exactly the
\* names that the raw names before the i-th stand for and that are not in
\* the block.
BlockAt(list, block, k, i) ==
    /\ k + Len(block) - 1 <= Len(list)
    /\ SubSeq(list, k, k + Len(block) - 1) = block
    /\ {list[p] : p \in 1..(k - 1)} = Earlier(i) \ Range(block)

FirstPosition(list, x) ==
    CHOOSE p \in 1..Len(list) :
        list[p] = x /\ \A q \in 1..(p - 1) : list[q] # x

C10_FirstSeenOrder ==
    (FormatCalled /\ AllValid) =>
        /\ ret.raised = NoException
        /\ Range(ret.value) = Range(NamesAsked)
        /\ \A p, q \in 1..Len(ret.value) :
               p < q =>
                   /\ ret.value[p] # ret.value[q]
                   /\ FirstPosition(NamesAsked, ret.value[p])
                          < FirstPosition(NamesAsked, ret.value[q])

\* A name is asked for twice, after another name, and the result has two
\* names.
C10_Witness ==
    /\ FormatReturned
    /\ AllValid
    /\ Len(ret.value) = 2
    /\ Len(NamesAsked) > 2
    /\ NamesAsked[1] # NamesAsked[2]


-----------------------------------------------------------------------------
(* What the claims about validation speak of.  These definitions describe    *)
(* the project and the calls; they are not used by the model.                *)

\* The folder names at a level of the project, on either side: the subjects
\* (level = None) or the sessions of a subject.
NamesNow(level) ==
    {p[Len(p)] : p \in {q \in local \cup central :
                            IF level = None THEN Len(q) = 1
                            ELSE Len(q) = 2 /\ q[1] = level}}

\* The names at a level that are subject or session names.
EntitiesNow(level) ==
    LET key == IF level = None THEN SUB ELSE SES
    IN {n \in NamesNow(level) :
            Len(n) > Len(key) /\ SubSeq(n, 1, Len(key) + 1) = key \o DASH}

\* The id of a subject or session name: "001" in "sub-001_id-a".
EntityId(name) == UpToUnderscore(SubSeq(name, Len(SUB) + 2, Len(name)))

SameIdOtherName(name, existing) ==
    name # existing /\ EntityId(name) = EntityId(existing)

\* The pairs (candidate, existing folder) of one id and different names that
\* a call of make_folders with these names meets in the project.
ConflictsAt(level, names) ==
    {pair \in Range(names) \X EntitiesNow(level) :
         SameIdOtherName(pair[1], pair[2])}

Conflicts(sub_names, ses_names) ==
    ConflictsAt(None, sub_names)
        \cup UNION {ConflictsAt(sub, ses_names) : sub \in Range(sub_names)}

\* The candidates of such a call whose id has another digit width than the
\* id of an existing folder of their level.
WidthClashes(sub_names, ses_names) ==
    {c \in Range(sub_names) :
         \E e \in EntitiesNow(None) : Len(EntityId(e)) # Len(EntityId(c))}
      \cup {c \in Range(ses_names) :
                \E s \in Range(sub_names) :
                    \E e \in EntitiesNow(s) :
                        Len(EntityId(e)) # Len(EntityId(c))}

RaisedNeuroBlueprintError(r) == r.raised.exception = "NeuroBlueprintError"

\* C7: a call of make_folders with a name whose id is that of an existing
\* folder of its level with another name raises NeuroBlueprintError and makes
\* no folder; the message names the candidate and the existing folder (when
\* no name of the call has a digit width that differs from the project's,
\* which is the other violation that can be found first).
C7_DuplicateEntityRaises ==
    [][(call'.op = "make_folders"
          /\ Conflicts(call'.sub_names, call'.ses_names) # {})
         => /\ RaisedNeuroBlueprintError(ret')
            /\ local' = local
            /\ central' = central
            /\ WidthClashes(call'.sub_names, call'.ses_names) = {}
                 => <<ret'.raised.message.name, ret'.raised.message.existing>>
                        \in Conflicts(call'.sub_names, call'.ses_names)]_vars

\* make_folders("sub-001_id-a") was refused because "sub-001" exists, and
\* there is no folder "sub-001_id-a".
C7_Witness ==
    /\ call.op = "make_folders"
    /\ call.sub_names = <<FollowedSubject \o ID_A>>
    /\ RaisedNeuroBlueprintError(ret)
    /\ ret.raised.message.name = FollowedSubject \o ID_A
    /\ ret.raised.message.existing = FollowedSubject
    /\ <<FollowedSubject>> \in local
    /\ <<FollowedSubject \o ID_A>> \notin local \cup central

\* The violations in the project: at every level, every ordered pair of
\* names of one id, and every name whose id has another digit width than
\* the id of another name.
ViolationsAt(level) ==
    {[level |-> level, name |-> pair[1], existing |-> pair[2]] :
         pair \in {x \in EntitiesNow(level) \X EntitiesNow(level) :
                       SameIdOtherName(x[1], x[2])}}
      \cup {[level |-> level, name |-> c, existing |-> <<>>] :
                c \in {x \in EntitiesNow(level) :
                           \E e \in EntitiesNow(level) :
                               Len(EntityId(e)) # Len(EntityId(x))}}

ProjectViolations ==
    UNION {ViolationsAt(level) : level \in {None} \cup EntitiesNow(None)}

NamedIn(message) == <<message.name, message.existing>>

\* C9: validate_project in "error" mode raises for one of the violations in
\* the project, and returns when there is none; in "warn" mode it never
\* raises, and returns after one warning for every violation.
C9_ErrorOrWarn ==
    call.op = "validate_project" =>
        IF call.error_or_warn = "error"
        THEN /\ ret.warnings = <<>>
             /\ IF ProjectViolations = {}
                THEN ret.raised = NoException
                ELSE /\ RaisedNeuroBlueprintError(ret)
                     /\ \E v \in ProjectViolations :
                            NamedIn(ret.raised.message) = NamedIn(v)
        ELSE /\ ret.raised = NoException
             /\ Len(ret.warnings) = Cardinality(ProjectViolations)
             /\ {NamedIn(ret.warnings[i].message) :
                     i \in 1..Len(ret.warnings)}
                    = {NamedIn(v) : v \in ProjectViolations}

\* validate_project("warn") returned after two warnings.
C9_Witness ==
    /\ call.op = "validate_project"
    /\ call.error_or_warn = "warn"
    /\ ret.raised = NoException
    /\ Cardinality(ProjectViolations) = 2
    /\ Len(ret.warnings) = 2
    /\ ret.warnings[1] # ret.warnings[2]

-----------------------------------------------------------------------------
(* C11 *)

FormattedAgain == call.op = "_process_names again"

HasPrefixOnce(name, prefix) ==
    /\ startswith(name, prefix)
    /\ ~startswith(name, prefix \o prefix)

\* C11: formatting valid raw names gives names that carry the canonical
\* prefix of the level, prepended where the raw name lacked it, and
\* formatting the names so obtained returns them unchanged, with no second
\* prefix.
C11_FormatIdempotent ==
    /\ (FormatCalled /\ AllValid) =>
           /\ ret.raised = NoException
           /\ ret.value = remove_duplicates(NamesAsked)
           /\ \A p \in 1..Len(ret.value) :
                  HasPrefixOnce(ret.value[p], LevelPrefix(call.sub_or_ses))
    /\ FormattedAgain =>
           /\ ret.raised = NoException
           /\ ret.value = call.processed

\* A raw name without the prefix and a range were formatted, and the names
\* obtained were formatted again.
C11_Witness ==
    /\ FormattedAgain
    /\ ret.raised = NoException
    /\ Len(call.processed) > 2
    /\ \E i \in 1..Len(call.names) :
           ~startswith(call.names[i], LevelPrefix(call.sub_or_ses))
    /\ \E i \in 1..Len(call.names) : CaseOf(i).range

-----------------------------------------------------------------------------
(* What the claims about transfers speak of.  These definitions describe    *)
(* the arguments and the result of a call; they are not used by the model.  *)

TransferCalled == call.op \in {"upload", "download"}

TransferReturned == TransferCalled /\ ret.raised = NoException

\* The side of the project that the data is taken from.
SourceSide == IF call.op = "upload" THEN "local" ELSE "remote"

Moves == Range(ret.moves)

\* The sub- directories in a data type's directory, and the ses-
\* directories in a subject's directory, on the source side.
SubsFound(type) ==
    {n \in DirNamesIn(SourceSide, <<type>>) : startswith(n, cfg.sub_prefix)}

SessFound(type, sub) ==
    {n \in DirNamesIn(SourceSide, <<type, sub>>) :
         startswith(n, cfg.ses_prefix)}

\* The data types of the transfer: the one named, or with "all" those that
\* have a directory on the source side.
TypesTransferred ==
    IF is_all(call.experiment_type)
    THEN {t \in Range(ses_dirs_keys) : t \in DirNamesIn(SourceSide, <<>>)}
    ELSE {call.experiment_type.chars}

SubjectsMoved(type) == {m.filepath[2] : m \in {c \in Moves : c.filepath[1] = type}}

SessionsMoved(type, sub) ==
    {m.filepath[3] :
         m \in {c \in Moves : c.filepath[1] = type /\ c.filepath[2] = sub}}

\* C12: in a transfer with ses_names "all", the sessions moved for a subject
\* are exactly the ses- directories in that subject's own directory on the
\* source side.
C12_SessionsOfOwnSubject ==
    (TransferReturned /\ is_all(call.ses_names)) =>
        \A type \in TypesTransferred :
            \A sub \in SubjectsMoved(type) :
                SessionsMoved(type, sub) = SessFound(type, sub)

\* A session directory that only another subject has is moved for a subject.
C12_Witness ==
    /\ TransferReturned
    /\ is_all(call.ses_names)
    /\ \E m \in Moves :
           /\ m.filepath[3] \notin SessFound(m.filepath[1], m.filepath[2])
           /\ \E sub \in SubsFound(m.filepath[1]) :
                  m.filepath[3] \in SessFound(m.filepath[1], sub)

\* C13: in a transfer with sub_names "all", the subjects moved for a data
\* type are sub- directories of that data type's own directory on the
\* source side, and with the sessions named they are all of them.
C13_SubjectsOfOwnDataType ==
    (TransferReturned /\ is_all(call.sub_names)) =>
        \A type \in TypesTransferred :
            /\ SubjectsMoved(type) \subseteq SubsFound(type)
            /\ ~is_all(call.ses_names) =>
                   SubsFound(type) \subseteq SubjectsMoved(type)

\* With "all" data types and "all" subjects, a subject that only the other
\* data type has is moved for a data type.
C13_Witness ==
    /\ TransferReturned
    /\ is_all(call.sub_names)
    /\ is_all(call.experiment_type)
    /\ \E m \in Moves :
           /\ m.filepath[2] \notin SubsFound(m.filepath[1])
           /\ \E type \in TypesTransferred :
                  m.filepath[2] \in SubsFound(type)

\* C14 as stated: the rclone commands of a transfer carry "--dry-run" when
\* the transfer is a preview, and do not carry it otherwise.
C14_PreviewIsDryRun ==
    TransferCalled =>
        \A m \in Moves :
            (DRY_RUN \in Range(Words(m.extra_arguments))) <=> call.preview

\* A preview for which a command was called without "--dry-run": what it
\* carries instead is no argument of rclone.
C14_Witness ==
    /\ TransferReturned
    /\ call.preview
    /\ \E m \in Moves :
           /\ DRY_RUN \notin Range(Words(m.extra_arguments))
           /\ ~(Range(Words(m.extra_arguments)) \subseteq rclone_flags)
           /\ m.filepath \in BaseDir(SourceSide)

-----------------------------------------------------------------------------
(* C15 *)

ArgumentsBuilt == call.op = "handle_rclone_arguments"

\* The include list as it is in the arguments, and the words before it.
IncludeWords == Words(py_join(<<" ">>, call.include_list))

OptionWords ==
    SubSeq(Words(ret.value), 1, Len(Words(ret.value)) - Len(IncludeWords))

\* handle_rclone_arguments adds "--dry-run" exactly when the dry_run option
\* is set.
DryRunOnRequest ==
    ArgumentsBuilt =>
        (DRY_RUN \in Range(OptionWords) <=> call.rclone_options.dry_run)

\* C15: the arguments start with "--create-empty-src-dirs" and the
\* verbosity flag, hold "--ignore-existing" exactly when overwrite_old_files
\* is False, and end with the include list, after all the option flags.
C15_OverwriteOnRequest ==
    ArgumentsBuilt =>
        /\ Len(OptionWords) >= 2
        /\ OptionWords[1] = CREATE_EMPTY_SRC_DIRS
        /\ OptionWords[2] = <<"-">> \o call.rclone_options.transfer_verbosity
        /\ IGNORE_EXISTING \in Range(Words(ret.value))
               <=> ~call.rclone_options.overwrite_old_files
        /\ Range(OptionWords) \subseteq rclone_flags
        /\ ret.value = py_join(<<" ">>, OptionWords \o call.include_list)
        /\ \A i \in 1..Len(call.include_list) :
               call.include_list[i] \notin rclone_flags

\* Arguments were built for a transfer that must not overwrite, with
\* progress shown and two entries in the include list.
C15_Witness ==
    /\ ArgumentsBuilt
    /\ ~call.rclone_options.overwrite_old_files
    /\ call.rclone_options.show_transfer_progress
    /\ Len(call.include_list) = 2
    /\ Len(OptionWords) = 4
    /\ OptionWords[3] = IGNORE_EXISTING

-----------------------------------------------------------------------------
(* What the claims about the checks of a config speak of.                    *)

CheckReturned == call.op = "check_dict_values_and_inform_user"

Checked == call.config_dict

\* The canonical keys the config lacks, and its keys that are not canonical.
MissingKeys == Range(canonical_keys) \ Range(keys(Checked))

ExtraKeys == Range(keys(Checked)) \ Range(canonical_keys)

\* The config has the canonical keys in their order, values of the required
\* types, a full remote path and a data type in use.
ValidButForConnection == Checked \in PlainConfigs

ConnectionMethod == item(Checked, "connection_method").v

\* The host id or the host username is None or empty.
HostMissing ==
    \/ item(Checked, "remote_host_id").v = <<>>
    \/ item(Checked, "remote_host_username").v = <<>>

\* C16: a config with connection_method "ssh" whose host id or host username
\* is None or empty is rejected with a ConfigError that says both are
\* required if the connection method is ssh; a config with connection_method
\* "local_filesystem" is accepted without them.
C16_SshWithoutHostRaisesConfigError ==
    (CheckReturned /\ ValidButForConnection) =>
        /\ (ConnectionMethod = SSH /\ HostMissing) =>
               /\ ret.raised.exception = "ConfigError"
               /\ ret.raised.message = SshSettingsRequired
        /\ ConnectionMethod = LOCAL_FILESYSTEM => ret.raised = NoException

\* What the check does: such an ssh config is rejected, with that message;
\* a local_filesystem config is accepted, and so is an ssh config with both.
C16_SshWithoutHostRaises ==
    (CheckReturned /\ ValidButForConnection) =>
        /\ (ConnectionMethod = SSH /\ HostMissing) =>
               /\ ret.raised.exception # "None"
               /\ ret.raised.message = SshSettingsRequired
        /\ (ConnectionMethod = SSH /\ ~HostMissing) =>
               ret.raised = NoException
        /\ ConnectionMethod = LOCAL_FILESYSTEM => ret.raised = NoException

C16_Witness ==
    /\ CheckReturned
    /\ ValidButForConnection
    /\ ConnectionMethod = SSH
    /\ item(Checked, "remote_host_id").v = HOST
    /\ item(Checked, "remote_host_username") = NoneValue
    /\ ret.raised.message = SshSettingsRequired

\* C17: check_dict_values_and_inform_user accepts a config only if its keys
\* are the canonical keys in the canonical order: a missing canonical key,
\* an extra key and another order of the keys each raise, and of a missing
\* and an extra key the missing one is reported.
C17_OnlyCanonicalKeysInOrder ==
    CheckReturned =>
        /\ ret.raised = NoException => keys(Checked) = canonical_keys
        /\ MissingKeys # {} =>
               /\ ret.raised.exception # "None"
               /\ \E key \in MissingKeys :
                     ret.raised.message = KeyNotFound(key)
        /\ ExtraKeys # {} => ret.raised.exception # "None"
        /\ (MissingKeys = {} /\ ExtraKeys # {}) =>
               \E key \in ExtraKeys : ret.raised.message = InvalidKey(key)
        /\ keys(Checked) # canonical_keys => ret.raised.exception # "None"

C17_Witness ==
    /\ CheckReturned
    /\ MissingKeys # {}
    /\ ExtraKeys # {}
    /\ \E key \in MissingKeys : ret.raised.message = KeyNotFound(key)

\* The keys are the canonical ones, in another order, and the call raised.
C17_WrongOrderRaised ==
    /\ CheckReturned
    /\ MissingKeys = {}
    /\ ExtraKeys = {}
    /\ keys(Checked) # canonical_keys
    /\ ret.raised.exception # "None"

-----------------------------------------------------------------------------
(* What the claims about making directories speak of.                       *)

MakeReturned == call.op \in {"make_sub_dir", "make_empty_ses_dir"}

\* The directories the call made.
Made == ret.made

\* Every entry of experiment_type is a key of the data types or "all".
ValidSelection ==
    \A name \in Range(NamesIn(call.experiment_type)) :
        name \in Range(ses_dirs_keys) \cup {ALL}

\* The data types that experiment_type selects.
SelectedTypes ==
    {key \in Range(ses_dirs_keys) :
         \E name \in Range(NamesIn(call.experiment_type)) :
             name \in {key, ALL}}

UsedTypes == {key \in Range(ses_dirs_keys) : _ses_dirs(key).used}

\* The subjects and sessions named in the call, when the names can be
\* formatted.
SubjectsNamed == _process_names(NamesIn(call.sub_names), "sub")

SessionsNamed ==
    IF call.ses_names = PyNone
    THEN [raised |-> NoException,
          value |-> IF call.make_ses_tree THEN <<SessionNames[1]>> ELSE <<>>]
    ELSE _process_names(NamesIn(call.ses_names), "ses")

NamesFormatted ==
    /\ SubjectsNamed.raised = NoException
    /\ SessionsNamed.raised = NoException

\* The data type has its directory for each subject and session named.
HasDirectories(key) ==
    /\ <<key>> \in local
    /\ \A sub \in Range(SubjectsNamed.value) :
         /\ <<key, sub>> \in local
         /\ \A ses \in Range(SessionsNamed.value) : <<key, sub, ses>> \in local

\* C18: a data type whose 'used' flag is False is never created: whatever
\* experiment_type selects ("all", the type itself, a list), the call makes
\* no directory for an unused data type, and every selected used data type
\* gets its directory for each subject and session.
C18_UsedTypesAreMade ==
    MakeReturned =>
        /\ \A dir \in Made : dir[1] \in UsedTypes
        /\ (ValidSelection /\ NamesFormatted) =>
               \A key \in SelectedTypes \cap UsedTypes : HasDirectories(key)

\* What the calls do: no directory is made for an unused data type, nor for
\* an unused directory of a session, and a call that did not raise made the
\* directories of every selected used data type.
C18_UnusedNeverMade ==
    MakeReturned =>
        /\ \A dir \in Made : dir[1] \in UsedTypes
        /\ ~configs.use_ephys_behav =>
               \A dir \in Made : ~(Len(dir) > 3 /\ dir[1] = EPHYS
                                     /\ dir[4] = BEHAV)
        /\ ~configs.use_behav_camera =>
               \A dir \in Made : ~(Len(dir) > 3 /\ dir[1] = BEHAV
                                     /\ dir[4] = CAMERA)
        /\ (ValidSelection /\ NamesFormatted /\ ret.raised = NoException) =>
               \A key \in SelectedTypes \cap UsedTypes : HasDirectories(key)

\* A list that names "all" with a data type selects a used data type, and
\* the call raises with no directory made.
C18_Witness ==
    /\ MakeReturned
    /\ call.experiment_type = PyList(<<ALL, EPHYS>>)
    /\ NamesFormatted
    /\ EPHYS \in UsedTypes
    /\ ret.raised = TypeError
    /\ ~HasDirectories(EPHYS)

\* "all" is selected with a data type not used: the directories of the
\* others are made, and none of that one.
C18_AllWithUnusedType ==
    /\ MakeReturned
    /\ call.experiment_type = PyStr(ALL)
    /\ NamesFormatted
    /\ BEHAV \notin UsedTypes
    /\ HasDirectories(EPHYS)
    /\ \A dir \in Made : dir[1] # BEHAV
    /\ Made # {}

-----------------------------------------------------------------------------
(* What the claims about the logs speak of.                                  *)

ConfigsCalled == call.op \in {"make_config_file", "supply_config_file"}

TempLogs == LogsIn(logs, _temp_log_path)

\* The logs of the last call, wherever they are.
LogsOfCall == {log \in logs : log.time = call.time}

LocalPathPassed == item(call.config_dict, "local_path").v

C20_SucceededAfterRaised ==
    /\ ConfigsCalled
    /\ call.time > 1
    /\ ret.raised = NoException
    /\ Cardinality(logs) = 1
    /\ TempLogs = {}

-----------------------------------------------------------------------------
(* What the claims about calls at the same time speak of.                    *)

Returned(t) == call[t].pc = "returned"

\* What the call of thread t returns when it runs alone in the project.
AloneResults(t) ==
    get_next_sub_or_ses_number(call[t].sub, call[t].search_str,
                               call[t].return_with_prefix,
                               call[t].default_num_value_digits)

\* The name lists the call of thread t was given by the search.
NamesGiven(t) ==
    search_project_for_sub_or_ses_names(call[t].sub, call[t].search_str)

\* C21: the number suggester holds no state across calls: of two calls that
\* run interleaved in any order over the same local and central names, each
\* returns what it returns when run alone, and the name lists it was given
\* are as the search returned them.
C21_InterleavedAsAlone ==
    \A t \in Threads :
        /\ Returned(t) => ret[t] \in AloneResults(t)
        /\ call[t].pc # "called" =>
               call[t].folder_names = Bound(NamesGiven(t))
        /\ ~Returned(t) => ret[t] = Idle

\* Two calls with different arguments have both returned, each its own
\* result.
C21_Witness ==
    /\ \A t \in Threads : Returned(t)
    /\ call[1].sub = None
    /\ call[2].sub # None
    /\ ret[1].value = SUB \o DASH \o Padded(4)
    /\ ret[1].warnings # <<>>
    /\ ret[2].value = SES \o DASH \o Padded(2)

-----------------------------------------------------------------------------
\* The existing names of the call that are on one side of the project.
ExistingOn(side) ==
    {n \in ExistingNames :
         <<n>> \in side \/ (call.sub # None /\ <<call.sub, n>> \in side)}

\* C22: the suggestion is computed over the union of the local and the
\* central folder names: when get_next_sub_or_ses_number returns, the number
\* it suggests is greater than every number existing at that level locally
\* or centrally, and the result is the same for every order of the names
\* and wherever the names are, on one side or on both.
C22_AboveUnionOfBothSides ==
    SuggestReturned =>
        /\ ret.raised = NoException =>
               \A n \in PrefixedNames : py_int(SuggestedValue) > py_int(ValueIn(n))
        /\ \A all_folders \in ListsOfSet(ExistingNames) :
               ret = next_number_from_folders(
                         all_folders, call.sub, call.return_with_prefix,
                         call.default_num_value_digits)

\* The largest number is on the central side only, another is local only,
\* and a suggestion was made.
C22_Witness ==
    /\ SuggestReturned
    /\ ret.raised = NoException
    /\ ExistingOn(local) \ ExistingOn(central) # {}
    /\ \E n \in PrefixedNames :
         /\ n \notin ExistingOn(local)
         /\ py_int(ValueIn(n)) = MaxExisting
         /\ py_int(SuggestedValue) = MaxExisting + 1

-----------------------------------------------------------------------------
\* The sessions inside the folders of other subjects than the one passed.
SessionsOfOthers ==
    {p \in local \cup central : Len(p) = 2 /\ p[1] # call.sub}

\* C23: get_next_sub_or_ses_number suggests a session number (prefix "ses",
\* from the names inside the folder of the subject passed) exactly when a
\* subject is passed, and a subject number (prefix "sub", from the names
\* of the top-level folder) when sub is None; the sessions of other
\* subjects make no difference to a session suggestion.
C23_LevelOfSubjectPassed ==
    (SuggestReturned /\ ret.raised = NoException) =>
        /\ call.return_with_prefix =>
               /\ call.sub = None <=> startswith(ret.value, SUB \o DASH)
               /\ call.sub # None <=> startswith(ret.value, SES \o DASH)
        /\ ret \in {next_number_from_folders(
                        all_folders, call.sub, call.return_with_prefix,
                        call.default_num_value_digits) :
                      all_folders \in
                          ListsOfSet({n \in ExistingNames :
                                          \E p \in local \cup central :
                                              p = IF call.sub = None
                                                  THEN <<n>>
                                                  ELSE <<call.sub, n>>})}
        /\ (call.sub # None /\ ExistingNames = {}) =>
               py_int(SuggestedValue) = 1

\* Another subject has a session, the subject passed has none, and the
\* first session is suggested for it.
C23_Witness ==
    /\ SuggestReturned
    /\ call.sub = FollowedSubject
    /\ call.return_with_prefix
    /\ \E p \in SessionsOfOthers : startswith(p[2], SES \o DASH)
    /\ ret.value = SES \o DASH \o Padded(1)

-----------------------------------------------------------------------------
(* What the claim about making the suggested folders speaks of.              *)

\* The call was made after the folder suggested by the call before it was
\* made.
AskedAgain == SuggestReturned /\ call.made > 0

\* The number that the call before suggested.
SuggestedBefore ==
    py_int(SubSeq(call.before, Len(ExpectedPrefix) + 2, Len(call.before)))

\* C27: from a project whose numbers at a level are consecutive with one
\* digit width, asking for the next number, making exactly the suggested
\* folder (locally or centrally) and asking again always succeeds: each
\* later call raises nothing, gives no warning of a skipped number and
\* returns the number suggested before plus one.
C27_AskMakeAskAlwaysSucceeds ==
    AskedAgain =>
        /\ ret.raised = NoException
        /\ ret.warnings = <<>>
        /\ py_int(SuggestedValue) = SuggestedBefore + 1

\* What the calls do: as long as the folder made has a number of the width
\* of the others the later call succeeds, without a warning, with the number
\* suggested before plus one; when the number suggested needed a digit more
\* (10 after 9, 1000 after 999) the later call raises, the widths being not
\* consistent.
C27_SucceedsUntilWidthGrows ==
    AskedAgain =>
        /\ Cardinality(ExistingWidths) = 1 =>
               /\ ret.raised = NoException
               /\ ret.warnings = <<>>
               /\ py_int(SuggestedValue) = SuggestedBefore + 1
        /\ Cardinality(ExistingWidths) > 1 =>
               /\ ret.raised.exception # "None"
               /\ ret.raised.message = DigitsNotConsistent(ExpectedPrefix)
               /\ SuggestedBefore \in {Pow10(w) : w \in ExistingWidths}

\* Three folders were made one after the other, on both sides, and the
\* fourth number is suggested.
C27_Witness ==
    /\ AskedAgain
    /\ call.made = MaxSuggestedMade
    /\ ExistingOn(central) # {}
    /\ ExistingOn(local) # {}
    /\ ret.raised = NoException
    /\ py_int(SuggestedValue) = SuggestedBefore + 1

\* The folder of the number 1000 was made after 999, and the later call
\* raised.
C27_RaisedAfterWidthGrew ==
    /\ AskedAgain
    /\ SuggestedBefore = TopNum + 1
    /\ ret.raised.exception # "None"

-----------------------------------------------------------------------------
(* What the claims about the configs screen speak of.                        *)

\* C24: in the new-project screen 'Configure Project' dismisses the screen
\* with the new project only after make_config_file has returned and the
\* user has pressed OK on the configs dialog; when DataShuttle(...) or
\* make_config_file raises, an error dialog is shown and the screen is not
\* dismissed with the project of that attempt; 'Main Menu' dismisses with
\* None.
C24_DismissedWithProjectOnlyAfterOK ==
    /\ tui.dismissed.dismissed =>
         \/ /\ tui.dismissed.button = "all_main_menu_buttons"
            /\ tui.dismissed.result = PyNone
         \/ /\ tui.dismissed.button = "OK"
            /\ tui.dismissed.result # PyNone
            /\ tui.dismissed.result.attempt \in tui.config_made
            /\ tui.dismissed.result.attempt \in tui.ok_pressed
            /\ tui.dismissed.result.attempt \notin tui.raised
            /\ configs.set
    /\ tui.raised = tui.error_dialogs
    /\ tui.raised \cap (tui.config_made \cup tui.ok_pressed) = {}
    /\ (tui.project = PyNone /\ ~tui.dismissed.dismissed) =>
           tui.ok_pressed = {}

\* The first attempt raised, its error dialog was closed, the second attempt
\* made the configs, and after OK the screen was dismissed with the project
\* of the second attempt.
C24_Witness ==
    /\ tui.dismissed.dismissed
    /\ tui.dismissed.result # PyNone
    /\ tui.dismissed.result.attempt = MaxAttempts
    /\ tui.raised = {1}
    /\ tui.error_dialogs = {1}

\* C25: once the screen is mounted and the radio set's messages are handled,
\* after any clicks on the connection-method radio buttons, every SSH widget
\* is displayed exactly when SSH is the selected method; for a new project
\* the screen starts with Local Filesystem selected, the SSH widgets hidden
\* and 'Overwrite Old Files' unchecked.
C25_SshWidgetsShownIffSshSelected ==
    (tui.mounted /\ tui.messages = <<>>) =>
        /\ \A w \in Range(config_ssh_widgets) :
             tui.display[w] <=> tui.value["configs_ssh_radiobutton"]
        /\ tui.value["configs_ssh_radiobutton"]
             # tui.value["configs_local_filesystem_radiobutton"]
        /\ (tui.project = PyNone /\ tui.changes = 0) =>
             /\ tui.value["configs_local_filesystem_radiobutton"]
             /\ \A w \in Range(config_ssh_widgets) : ~tui.display[w]
             /\ ~tui.value["configs_overwrite_files_checkbox"]
        /\ (tui.project # PyNone /\ tui.changes = 0 /\ tui.attempts = 0) =>
             (tui.value["configs_ssh_radiobutton"]
                <=> configs.connection_method = SSH)

\* On the screen of a new project the user pressed SSH, then Local
\* Filesystem, then SSH again, and the SSH widgets are displayed.
C25_Witness ==
    /\ tui.mounted
    /\ tui.messages = <<>>
    /\ tui.project = PyNone
    /\ tui.changes = MaxWidgetChanges
    /\ tui.value["configs_ssh_radiobutton"]
    /\ ~tui.value["configs_overwrite_files_checkbox"]
    /\ \A w \in Range(config_ssh_widgets) : tui.display[w]

-----------------------------------------------------------------------------
(* What the claim about the Create tab speaks of.                            *)

\* The step is a right click on the input of the prefix.
RightClicked(prefix) ==
    /\ tui'.clicks = tui.clicks + 1
    /\ tui'.clicked = prefix

\* The template of the prefix from its first "_" on, when templates are on
\* and the template is set.
TokensAfterFirst(prefix) ==
    LET template == name_template(tui, prefix)
    IN  IF tui.name_templates.on /\ template # PyNone
        THEN SubSeq(template.chars,
                    CHOOSE i \in 1..Len(template.chars) + 1 :
                        /\ i <= Len(template.chars) => template.chars[i] = "_"
                        /\ \A j \in 1..(i - 1) : template.chars[j] # "_",
                    Len(template.chars))
        ELSE <<>>

\* A suggestion was asked for in the step, for the subject given.
SuggestionAsked(sub) ==
    /\ call'.op = "get_next_sub_or_ses_number"
    /\ call'.sub = sub
    /\ ret' \in get_next_sub_or_ses_number(
                    sub, prefix_for(sub) \o DASH \o <<"*">>, TRUE,
                    default_num_value_digits)

\* C26: in the Create tab, asking for the next session number fills the
\* session input only when the subject input holds exactly one non-empty
\* subject name; when it holds more than one name or is empty an error
\* dialog is shown, no suggestion is asked for and the session input keeps
\* its value.  With name templates on, the value filled is the suggested
\* sub/ses key-value followed by the tokens of the template after its first
\* one.
C26_NextSessionNeedsOneSubject ==
    [][/\ RightClicked(SES) =>
            IF Len(tui.subject_input) = 1 /\ tui.subject_input[1] # <<>>
            THEN /\ SuggestionAsked(tui.subject_input[1])
                 /\ tui'.screens = tui.screens
                 /\ tui'.session_input =
                        IF ret'.raised = NoException
                        THEN ret'.value \o TokensAfterFirst(SES)
                        ELSE tui.session_input
            ELSE /\ tui'.screens[Len(tui'.screens)].name = "ModalErrorDialog"
                 /\ (IF Len(tui.subject_input) > 1 THEN SingleSubjectOnly
                     ELSE SubjectFirst) \in tui'.error_dialogs
                 /\ call' = call
                 /\ ret' = ret
                 /\ tui'.session_input = tui.session_input
       /\ RightClicked(SUB) =>
            /\ SuggestionAsked(None)
            /\ tui'.session_input = tui.session_input
            /\ ret'.raised = NoException =>
                 tui'.subject_input = <<ret'.value \o TokensAfterFirst(SUB)>>
       /\ tui'.subject_input = tui.subject_input \/ RightClicked(SUB)
                                                  \/ tui'.clicks = tui.clicks
      ]_vars

\* With templates on, the session input that held a typed value was filled
\* with the second session of the subject followed by the rest of the
\* template.
C26_Witness ==
    /\ tui.clicked = SES
    /\ tui.name_templates.on
    /\ tui.name_templates.ses # PyNone
    /\ tui.subject_input = <<FollowedSubject>>
    /\ call # NoCall
    /\ call.sub = FollowedSubject
    /\ tui.session_input =
           SES \o DASH \o Padded(2)
               \o <<"_", "d", "a", "t", "e", "-", "x", "_", "r", "u", "n", "-", "1">>

=============================================================================
